---- MODULE Spec2Model ----
(***************************************************************************)
(* A model of the GraphQL -> TypeScript generator: the import resolver     *)
(* (loadImports), the type resolver with its fixpoint loop (resolveTypes,  *)
(* convertType, convertTypeNode, walkType), and the emitter (generate,     *)
(* addFragmentDepsRecursive, typeToString).                                *)
(*                                                                         *)
(* Representation.                                                         *)
(*   - A Dict<T> is a function whose domain is a finite set of strings;    *)
(*     the empty Dict is <<>>.                                             *)
(*   - The optional flag `nullable?: boolean` of a TSType has three        *)
(*     values: "true", "false" and "undefined" (the property is absent).   *)
(*   - A thrown Error is the record [type |-> "error", reason |-> ...].    *)
(*   - An import path is a sequence of tokens, so that the key             *)
(*     `${path}:${name}` and its `_.split(dep, ":", 2)` are modelled by    *)
(*     what they do; ":" is a token of its own.                            *)
(***************************************************************************)
EXTENDS Integers, Sequences, FiniteSets, TLC

(***************************************************************************)
(* Generic helpers.                                                        *)
(***************************************************************************)
Range(s) == {s[i] : i \in DOMAIN s}

Has(d, k) == k \in DOMAIN d

\* d[k] = v on a Dict (overwrites an existing key).
Put(d, k, v) == (k :> v) @@ d

\* _.extend(dst, src): the keys of src overwrite those of dst.
Extend(dst, src) == src @@ dst

\* Every identifier of the model in the order of JavaScript's default
\* string comparison (UTF-16 code units): what Array.prototype.sort() and
\* _.sortBy give on these names.
NameOrder ==
  << "..", "/y", "A", "AQuery", "B", "Boolean", "C", "Color", "D", "DateTime", "Extra", "F",
     "Filter", "Float", "G", "H", "ID", "Int", "Item", "J", "K", "L",
     "LQuery", "M", "MMutation", "MQuery", "Missing", "Mutation", "Node",
     "Nope", "P", "PQuery", "Q", "QQuery", "Query", "R", "RQuery", "Range", "S", "SQuery",
     "SSubscription", "Size", "String", "T", "TQuery", "U", "UQuery", "Unit", "Unused",
     "X",
     "Y", "__typename", "at", "b", "c", "color", "d", "empty", "f", "id",
     "ids", "item", "items", "lib-pkg", "max", "min", "n", "nested", "on",
     "opts", "other", "owner", "r", "range", "req", "save", "since", "size",
     "sub", "subs", "u", "unit", "xs" >>

NameSet == {NameOrder[i] : i \in DOMAIN NameOrder}

SortNames(S) == SelectSeq(NameOrder, LAMBDA n : n \in S)

(***************************************************************************)
(* GraphQL types (graphql-js GraphQLType): wrappers and references to the  *)
(* named types of the schema.                                              *)
(***************************************************************************)
NonNullOf(t) == [kind |-> "NonNull", ofType |-> t]
ListOf(t) == [kind |-> "List", ofType |-> t]
TypeRef(n) == [kind |-> "Named", name |-> n]

\* The schema handed to the generator: a fixed input of the model.
\*   scalar DateTime
\*   enum Color, Size, Unit, Unused
\*   interface Node { id: ID! }
\*   input Filter { color: Color, range: Range!, since: DateTime, ids: [ID!] }
\*   input Range  { unit: Unit!, min: Int, max: Float }
\*   input Extra  { on: Boolean! }
\*   type Item { id: ID!, n: Int, at: DateTime, color: Color!, size: Size,
\*               sub: Item, req: Item!, subs: [Item!], opts: [Item]!,
\*               owner: Node }
\*   type Query { item: Item, items: [Item!]! }
\*   type Mutation { save: Item! }
SchemaTypes ==
  [ String   |-> [kind |-> "scalar", fields |-> <<>>],
    Int      |-> [kind |-> "scalar", fields |-> <<>>],
    Float    |-> [kind |-> "scalar", fields |-> <<>>],
    Boolean  |-> [kind |-> "scalar", fields |-> <<>>],
    ID       |-> [kind |-> "scalar", fields |-> <<>>],
    DateTime |-> [kind |-> "scalar", fields |-> <<>>],
    Color    |-> [kind |-> "enum", fields |-> <<>>],
    Size     |-> [kind |-> "enum", fields |-> <<>>],
    Unit     |-> [kind |-> "enum", fields |-> <<>>],
    Unused   |-> [kind |-> "enum", fields |-> <<>>],
    Node     |-> [kind |-> "interface",
                  fields |-> [id |-> NonNullOf(TypeRef("ID"))]],
    Filter   |-> [kind |-> "input",
                  fields |-> [color |-> TypeRef("Color"),
                              range |-> NonNullOf(TypeRef("Range")),
                              since |-> TypeRef("DateTime"),
                              ids   |-> ListOf(NonNullOf(TypeRef("ID")))]],
    Range    |-> [kind |-> "input",
                  fields |-> [unit |-> NonNullOf(TypeRef("Unit")),
                              min  |-> TypeRef("Int"),
                              max  |-> TypeRef("Float")]],
    Extra    |-> [kind |-> "input",
                  fields |-> [on |-> NonNullOf(TypeRef("Boolean"))]],
    Item     |-> [kind |-> "object",
                  fields |-> [id    |-> NonNullOf(TypeRef("ID")),
                              n     |-> TypeRef("Int"),
                              at    |-> TypeRef("DateTime"),
                              color |-> NonNullOf(TypeRef("Color")),
                              size  |-> TypeRef("Size"),
                              sub   |-> TypeRef("Item"),
                              req   |-> NonNullOf(TypeRef("Item")),
                              subs  |-> ListOf(NonNullOf(TypeRef("Item"))),
                              opts  |-> NonNullOf(ListOf(TypeRef("Item"))),
                              owner |-> TypeRef("Node")]],
    Query    |-> [kind |-> "object",
                  fields |-> [item  |-> TypeRef("Item"),
                              items |-> NonNullOf(ListOf(NonNullOf(TypeRef("Item"))))]],
    Mutation |-> [kind |-> "object",
                  fields |-> [save |-> NonNullOf(TypeRef("Item"))]] ]

\* schema.getType(name) is defined
HasType(name) == name \in DOMAIN SchemaTypes

isNonNullType(t) == t.kind = "NonNull"
isListType(t) == t.kind = "List"
isKind(t, k) == t.kind = "Named" /\ SchemaTypes[t.name].kind = k
isEnumType(t) == isKind(t, "enum")
isScalarType(t) == isKind(t, "scalar")
isInputObjectType(t) == isKind(t, "input")
isObjectType(t) == isKind(t, "object")

\* t.getFields() of an object or input object type
getFields(t) == SchemaTypes[t.name].fields

\* schema.getQueryType() / getMutationType() / getSubscriptionType():
\* the schema has no subscription root.
RootType(operation) ==
  CASE operation = "query" -> "Query"
    [] operation = "mutation" -> "Mutation"
    [] OTHER -> "none"

(***************************************************************************)
(* The document AST (graphql-js): selections, type nodes, definitions.     *)
(***************************************************************************)
\* A field selection; alias "" is no alias, selectionSet <<>> is none.
Field(name, ss) ==
  [kind |-> "Field", name |-> name, alias |-> "", selectionSet |-> ss]
Aliased(alias, name, ss) ==
  [kind |-> "Field", name |-> name, alias |-> alias, selectionSet |-> ss]
Spread(name) ==
  [kind |-> "FragmentSpread", name |-> name, alias |-> "", selectionSet |-> <<>>]
Inline(ss) ==
  [kind |-> "InlineFragment", name |-> "", alias |-> "", selectionSet |-> ss]

\* TypeNode of a variable definition
NamedTypeNode(n) == [kind |-> "NamedType", name |-> n]
ListTypeNode(t) == [kind |-> "ListType", type |-> t]
NonNullTypeNode(t) == [kind |-> "NonNullType", type |-> t]

FragmentDef(name, typeCondition, ss) ==
  [kind |-> "FragmentDefinition", name |-> name, operation |-> "",
   typeCondition |-> typeCondition, variableDefinitions |-> <<>>,
   selectionSet |-> ss, loc |-> TRUE]
OperationDef(operation, name, vars, ss) ==
  [kind |-> "OperationDefinition", name |-> name, operation |-> operation,
   typeCondition |-> "", variableDefinitions |-> vars, selectionSet |-> ss,
   loc |-> TRUE]

(***************************************************************************)
(* TSType: the emitted type model.                                         *)
(***************************************************************************)
TSNamed(name, nullable) ==
  [type |-> "named", name |-> name, nullable |-> nullable]
TSObject(fields, nullable) ==
  [type |-> "object", fields |-> fields, nullable |-> nullable]
TSArray(element, nullable) ==
  [type |-> "array", element |-> element, nullable |-> nullable]
TSIntersection(types, nullable) ==
  [type |-> "intersection", types |-> types, nullable |-> nullable]
Thrown(reason) == [type |-> "error", reason |-> reason]
IsErr(t) == t.type = "error"

\* `nullable: boolean = true` as the value stored in the flag
Flag(b) == IF b THEN "true" ELSE "false"

\* A top-level type that keeps the flag of the conversion.
KeepNullable(t) == t

\* t.nullable = false (the "top level types are not nullable" assignment)
SetNotNullable(t) == [t EXCEPT !.nullable = "false"]

builtInScalarMap ==
  [String |-> "string", Int |-> "number", Float |-> "number",
   Boolean |-> "boolean", ID |-> "string"]

aliasOrName(v) == IF v.alias # "" THEN v.alias ELSE v.name

\* A conversion of variable types that does not look at NonNull wrappers.
convertTypeNodeLoose(t, nullable) == TSNamed("string", "true")

RECURSIVE convertTypeNode(_, _)
convertTypeNode(t, nullable) ==
  CASE t.kind = "ListType" ->
         TSArray(convertTypeNode(t.type, TRUE), Flag(nullable))
    [] t.kind = "NamedType" ->
         TSNamed(IF Has(builtInScalarMap, t.name)
                   THEN builtInScalarMap[t.name] ELSE t.name,
                 Flag(nullable))
    [] t.kind = "NonNullType" -> convertTypeNode(t.type, FALSE)

\* fragments[name] || imports[name]?.fragment, as the TSType of the
\* fragment found, or Thrown("non-existent fragment").
\* A lookup that finds an object type under every name.
LookupAnyFragment(fragments, imports, name) == TSObject(<<>>, "false")

LookupFragment(fragments, imports, name) ==
  IF Has(fragments, name) THEN fragments[name].type
  ELSE IF Has(imports, name) THEN imports[name].fragment.type
  ELSE Thrown("non-existent fragment")

(***************************************************************************)
(* convertType: a GraphQL type with its selection set to a TSType.         *)
(***************************************************************************)
\* isect.types.splice(0, 0, member): the members so far other than the
\* local object, which stays the last member of the intersection.
\* A splice at the end of the members in the place of splice(0, 0, ...).
SpliceBack(members, member) == members \o <<member>>

SpliceFront(members, member) == <<member>> \o members

\* The accumulator of the selection loop: obj.fields, and the Named members
\* spliced into the intersection so far (none: `out` is still `obj`).
SelAcc(fields, members) == [type |-> "acc", fields |-> fields, members |-> members]

\* `out` when the loop ends: the object, or the intersection whose last
\* member is the object with its nullable flag removed.
\* An intersection whose object keeps the flag it was created with.
SelectionResultKeepingFlag(acc, nullable) ==
  IF acc.members = <<>> THEN TSObject(acc.fields, Flag(nullable))
  ELSE TSIntersection(acc.members \o <<TSObject(acc.fields, Flag(nullable))>>,
                      Flag(nullable))

SelectionResult(acc, nullable) ==
  IF acc.members = <<>> THEN TSObject(acc.fields, Flag(nullable))
  ELSE TSIntersection(acc.members \o <<TSObject(acc.fields, "undefined")>>,
                      Flag(nullable))

\* The mapped name of a scalar, ArbitraryObjectType when it has none.
ScalarName(name) ==
  IF Has(builtInScalarMap, name) THEN builtInScalarMap[name]
  ELSE "ArbitraryObjectType"

\* A conversion without the short cut for a single spread.
NeverSingleSpread(ss) == FALSE

\* The short cut taken for a selection set that is one fragment spread.
IsSingleSpread(ss) == Len(ss) = 1 /\ ss[1].kind = "FragmentSpread"

\* A selection loop that takes a fragment of any type.
AnySpreadable(ft) == TRUE

\* The test a spread fragment's type has to pass inside a selection loop.
SpreadableType(ft) == ft.type \in {"intersection", "object"}

RECURSIVE convertType(_, _, _, _, _, _)
RECURSIVE convertSelections(_, _, _, _, _, _)
convertType(t, ss, fragments, imports, nullable, expandNamedInput) ==
  IF isNonNullType(t)
    THEN convertType(t.ofType, ss, fragments, imports, FALSE, FALSE)
  ELSE IF isEnumType(t) THEN TSNamed(t.name, Flag(nullable))
  ELSE IF isScalarType(t) THEN TSNamed(ScalarName(t.name), Flag(nullable))
  ELSE IF isListType(t) THEN
    LET element == convertType(t.ofType, ss, fragments, imports, TRUE, FALSE)
    IN  IF IsErr(element) THEN element ELSE TSArray(element, Flag(nullable))
  ELSE IF isInputObjectType(t) THEN
    IF ~expandNamedInput THEN TSNamed(t.name, Flag(nullable))
    ELSE
      LET inputFields == getFields(t)
          fields == [f \in DOMAIN inputFields |->
                       convertType(inputFields[f], <<>>, fragments, imports,
                                   TRUE, FALSE)]
      IN  IF \E f \in DOMAIN fields : IsErr(fields[f])
            THEN Thrown("should not be undefined")
            ELSE TSObject(fields, Flag(nullable))
  ELSE IF isObjectType(t) THEN
    IF ss = <<>> THEN Thrown("should not be undefined")
    ELSE IF IsSingleSpread(ss)
      THEN TSNamed(ss[1].name \o "Fragment", Flag(nullable))
    ELSE
      LET acc == convertSelections(t, ss, 1, fragments, imports,
                                   SelAcc(<<>>, <<>>))
      IN  IF IsErr(acc) THEN acc ELSE SelectionResult(acc, nullable)
  ELSE TSNamed("<unknown>", "undefined")

convertSelections(t, ss, i, fragments, imports, acc) ==
  IF i > Len(ss) THEN acc
  ELSE
    LET sel == ss[i] IN
    CASE sel.kind = "Field" ->
           IF ~Has(getFields(t), sel.name) THEN Thrown("TypeError")
           ELSE
             LET ft == convertType(getFields(t)[sel.name], sel.selectionSet,
                                   fragments, imports, TRUE, FALSE)
             IN  IF IsErr(ft) THEN ft
                 ELSE convertSelections(t, ss, i + 1, fragments, imports,
                        SelAcc(Put(acc.fields, aliasOrName(sel), ft),
                               acc.members))
      [] sel.kind = "FragmentSpread" ->
           LET ft == LookupFragment(fragments, imports, sel.name) IN
           IF IsErr(ft) THEN ft
           ELSE IF SpreadableType(ft)
             THEN convertSelections(t, ss, i + 1, fragments, imports,
                    SelAcc(acc.fields,
                           SpliceFront(acc.members,
                                       TSNamed(sel.name \o "Fragment",
                                               "undefined"))))
             ELSE Thrown("invalid type")
      [] sel.kind = "InlineFragment" -> Thrown("not implemented yet")

(***************************************************************************)
(* walkType / walkTypeNode: the types handed to the callback, in a set     *)
(* (both callbacks only set keys of usedNamedTypes), and whether the walk  *)
(* threw; what was visited before a throw has been handed over already.    *)
(***************************************************************************)
Walked(seen, threw) == [seen |-> seen, threw |-> threw]

RECURSIVE walkType(_, _)
RECURSIVE walkSelections(_, _, _, _)
walkType(t, ss) ==
  IF isNonNullType(t) \/ isListType(t) THEN
    LET w == walkType(t.ofType, ss) IN Walked({t} \cup w.seen, w.threw)
  ELSE IF isInputObjectType(t) THEN
    LET ws == {walkType(getFields(t)[f], <<>>) : f \in DOMAIN getFields(t)}
    IN  Walked({t} \cup UNION {w.seen : w \in ws}, \E w \in ws : w.threw)
  ELSE IF isObjectType(t) THEN
    IF ss = <<>> THEN Walked({t}, TRUE)
    ELSE walkSelections(t, ss, 1, Walked({t}, FALSE))
  ELSE Walked({t}, FALSE)

walkSelections(t, ss, i, acc) ==
  IF i > Len(ss) THEN acc
  ELSE IF ss[i].kind # "Field"
    THEN walkSelections(t, ss, i + 1, acc)
  ELSE IF ~Has(getFields(t), ss[i].name) THEN Walked(acc.seen, TRUE)
  ELSE
    LET w == walkType(getFields(t)[ss[i].name], ss[i].selectionSet) IN
    IF w.threw THEN Walked(acc.seen \cup w.seen, TRUE)
    ELSE walkSelections(t, ss, i + 1, Walked(acc.seen \cup w.seen, FALSE))

\* The names of the enum types a walk handed over.
EnumNames(seen) == {t.name : t \in {u \in seen : isEnumType(u)}}

\* The names of the enum and input object types a walk handed over.
InputOrEnumNames(seen) ==
  {t.name : t \in {u \in seen : isInputObjectType(u) \/ isEnumType(u)}}

\* The names of the NamedType nodes walkTypeNode hands over.
RECURSIVE walkTypeNode(_)
walkTypeNode(t) ==
  IF t.kind \in {"ListType", "NonNullType"} THEN walkTypeNode(t.type)
  ELSE {t.name}

(***************************************************************************)
(* extractFragmentDeps: the names spread anywhere in a selection set.      *)
(***************************************************************************)
RECURSIVE extractFragmentDeps(_, _, _)
extractFragmentDeps(ss, i, acc) ==
  IF i > Len(ss) THEN acc
  ELSE
    CASE ss[i].kind = "Field" ->
           LET w == extractFragmentDeps(ss[i].selectionSet, 1,
                                        Walked(acc.seen, FALSE))
           IN  IF w.threw THEN w ELSE extractFragmentDeps(ss, i + 1, w)
      [] ss[i].kind = "FragmentSpread" ->
           extractFragmentDeps(ss, i + 1,
                               Walked(acc.seen \cup {ss[i].name}, FALSE))
      [] ss[i].kind = "InlineFragment" -> Walked(acc.seen, TRUE)

\* extractFragmentDeps(ss, {}) from an empty deps object
SpreadsOf(ss) == extractFragmentDeps(ss, 1, Walked({}, FALSE))


(***************************************************************************)
(* resolveTypes: the state of one call, and its steps as functions of it.  *)
(*   defs       namedDefinitions[i].def, in the order of the document      *)
(*   resolved   namedDefinitions[i].resolved                               *)
(*   errors     the errors of the current pass, each with the location     *)
(*              (the index) of its definition                              *)
(*   before     numUnresolvedBefore of the current pass                    *)
(*   next       the position of the `for` loop over namedDefinitions       *)
(*   passes     the number of passes completed                             *)
(*   resolvedIn for each definition, the pass (1, 2, ...) in which it was  *)
(*              marked resolved, 0 while it is not: a record of the run    *)
(*   status     "pass" (inside the loop), "returned" or "thrown"           *)
(***************************************************************************)
NoResolver ==
  [defs |-> <<>>, resolved |-> <<>>, usedNamedTypes |-> {},
   fragmentDeps |-> <<>>, fragments |-> <<>>, operations |-> <<>>,
   importedFragments |-> <<>>, errors |-> <<>>, before |-> 0, next |-> 1,
   passes |-> 0, resolvedIn |-> <<>>, status |-> "idle", message |-> ""]

NumUnresolved(resolved) == Cardinality({i \in DOMAIN resolved : ~resolved[i]})

\* A loop over the definitions that never finds a name in nameDedup.
NoDuplicateAt(doc, i) == FALSE

\* The definitions before position i of a document that have the name of
\* the definition at i: nameDedup[name] is set when the loop reaches i.
DuplicateAt(doc, i) == \E j \in 1..(i - 1) : doc[j].name = doc[i].name

\* The union of the Dicts d[field] of a sequence of records (_.extend in
\* the order of the sequence).
RECURSIVE ExtendAll(_, _)
ExtendAll(datas, field) ==
  IF datas = <<>> THEN <<>>
  ELSE Extend(ExtendAll(SubSeq(datas, 1, Len(datas) - 1), field),
              datas[Len(datas)][field])

\* Lines 666-701: the tables, the check of the names, the import map or
\* (embedImports) the tables seeded from every rawImportData, and the head
\* of the first pass. `imports` is NoImports for `undefined`.
StartResolve(doc, imports) ==
  IF \E i \in DOMAIN doc : DuplicateAt(doc, i)
    THEN [NoResolver EXCEPT !.defs = doc, !.status = "thrown",
                            !.message = "already exists"]
    ELSE
      LET embed == imports.embedImports IN
      [NoResolver EXCEPT
         !.defs = doc,
         !.resolved = [i \in DOMAIN doc |-> FALSE],
         !.resolvedIn = [i \in DOMAIN doc |-> 0],
         !.usedNamedTypes =
            IF embed
              THEN UNION {d.usedNamedTypes : d \in Range(imports.rawImportData)}
              ELSE {},
         !.fragmentDeps =
            IF embed THEN ExtendAll(imports.rawImportData, "fragmentDeps")
                     ELSE <<>>,
         !.fragments =
            IF embed THEN ExtendAll(imports.rawImportData, "fragments")
                     ELSE <<>>,
         !.importedFragments =
            IF embed THEN <<>> ELSE imports.loadedImportsMap,
         !.before = Len(doc),
         !.status = "pass"]

\* The name under which an operation is stored.
OperationName(def) ==
  def.name \o (CASE def.operation = "mutation" -> "Mutation"
                 [] def.operation = "query" -> "Query"
                 [] OTHER -> "Subscription")

\* varFields after the _.forEach over def.variableDefinitions
RECURSIVE VarFields(_)
VarFields(vds) ==
  IF vds = <<>> THEN <<>>
  ELSE LET vd == vds[Len(vds)] IN
       Put(VarFields(SubSeq(vds, 1, Len(vds) - 1)), vd.name,
           convertTypeNode(vd.type, TRUE))

\* A catch block that drops the error.
CaughtUnrecorded(r, i, reason) == [r EXCEPT !.resolved[i] = FALSE]

\* The catch block: the error is recorded with the location of the
\* definition (every definition comes out of parse() and has one); without
\* a location the error is thrown again and ends the call.
Caught(r, i, reason) ==
  IF r.defs[i].loc
    THEN [r EXCEPT !.errors = Append(@, [loc |-> i, reason |-> reason]),
                   !.resolved[i] = FALSE]
    ELSE [r EXCEPT !.status = "thrown", !.message = reason]

\* Lines 742-749: the converted operation is stored, or its error caught.
StoreOperation(r, i, operation) ==
  IF IsErr(operation) THEN Caught(r, i, operation.reason)
  ELSE [r EXCEPT
          !.operations =
             Put(@, OperationName(r.defs[i]),
                 [operation |-> SetNotNullable(operation),
                  variables |->
                     TSObject(VarFields(r.defs[i].variableDefinitions),
                              "undefined"),
                  node |-> r.defs[i]]),
          !.resolved[i] = TRUE]

\* Lines 731-741: the enums the walk has seen are recorded before anything
\* can fail; then the variables are walked and the selection set converted
\* against the fragments resolved when the attempt began.
ConvertOperation(r, i, type, w) ==
  IF w.threw
    THEN Caught([r EXCEPT !.usedNamedTypes = @ \cup EnumNames(w.seen)],
                i, "TypeError")
    ELSE StoreOperation(
           [r EXCEPT !.usedNamedTypes =
              @ \cup EnumNames(w.seen)
                \cup UNION {walkTypeNode(vd.type) :
                              vd \in Range(r.defs[i].variableDefinitions)}],
           i,
           convertType(type, r.defs[i].selectionSet, r.fragments,
                       r.importedFragments, TRUE, FALSE))

\* The body of the try block for an operation definition at position i.
ResolveOperation(r, i) ==
  IF RootType(r.defs[i].operation) = "none"
    THEN Caught(r, i, "missing type")
    ELSE ConvertOperation(r, i, TypeRef(RootType(r.defs[i].operation)),
                          walkType(TypeRef(RootType(r.defs[i].operation)),
                                   r.defs[i].selectionSet))

\* Lines 760-765: the fragment is stored with its type, then its
\* dependencies are extracted.
StoreFragment(r, i, type, deps) ==
  IF IsErr(type) THEN Caught(r, i, type.reason)
  ELSE IF deps.threw
    THEN Caught([r EXCEPT
                   !.fragments =
                      Put(@, r.defs[i].name,
                          [type |-> SetNotNullable(type),
                           node |-> r.defs[i]])],
                i, "not implemented yet")
    ELSE [r EXCEPT
            !.fragments =
               Put(@, r.defs[i].name,
                   [type |-> SetNotNullable(type), node |-> r.defs[i]]),
            !.fragmentDeps = Put(@, r.defs[i].name, SortNames(deps.seen)),
            !.resolved[i] = TRUE]

\* Lines 755-759: the walk of the fragment and its conversion.
ConvertFragment(r, i, t, w) ==
  IF w.threw
    THEN Caught([r EXCEPT !.usedNamedTypes = @ \cup EnumNames(w.seen)],
                i, "TypeError")
    ELSE StoreFragment(
           [r EXCEPT !.usedNamedTypes = @ \cup EnumNames(w.seen)], i,
           convertType(t, r.defs[i].selectionSet, r.fragments,
                       r.importedFragments, TRUE, FALSE),
           SpreadsOf(r.defs[i].selectionSet))

\* The body of the try block for a fragment definition at position i.
ResolveFragment(r, i) ==
  IF ~HasType(r.defs[i].typeCondition) THEN [r EXCEPT !.resolved[i] = TRUE]
  ELSE ConvertFragment(r, i, TypeRef(r.defs[i].typeCondition),
                       walkType(TypeRef(r.defs[i].typeCondition),
                                r.defs[i].selectionSet))

\* The loop moves on to the next definition, unless the call has ended.
Attempted(r, i, r1) ==
  IF r1.status = "thrown" THEN r1
  ELSE [r1 EXCEPT !.next = i + 1,
                  !.resolvedIn[i] = IF r1.resolved[i] THEN r.passes + 1
                                    ELSE 0]

\* One iteration of `for (const ndef of namedDefinitions)` on a definition
\* that is not resolved yet.
ResolveDefinition(r, i) ==
  Attempted(r, i, IF r.defs[i].kind = "OperationDefinition"
                    THEN ResolveOperation(r, i)
                    ELSE ResolveFragment(r, i))

\* The positions the loop has still to attempt in this pass.
Pending(r) == {i \in DOMAIN r.defs : i >= r.next /\ ~r.resolved[i]}

\* Lines 787-797: the dependencies of the used named types.
ClosureWalks(used) ==
  {walkType(TypeRef(name), <<>>) : name \in {n \in used : HasType(n)}}

\* A return without the additional pass over the used named types.
UsedNamedTypesAsIs(used) == used

UsedNamedTypesClosure(used) ==
  used \cup UNION {InputOrEnumNames(w.seen) : w \in ClosureWalks(used)}

\* A loop that goes on to the next pass whatever the last one did.
NeverStuck(before, after) == FALSE

\* The test that ends the call with an error after a pass.
NoProgress(before, after) == before = after /\ before # 0

\* An end of pass that gives up as soon as a definition is left unresolved.
FinishPassOnce(r) ==
  LET after == NumUnresolved(r.resolved)
      r1 == [r EXCEPT !.passes = @ + 1]
  IN
  IF after # 0
    THEN [r1 EXCEPT !.status = "thrown", !.message = "failed to resolve types"]
    ELSE [r1 EXCEPT !.status = "returned",
                    !.usedNamedTypes = UsedNamedTypesClosure(@)]

\* Lines 780-804: the end of a pass. The call throws with the errors of
\* the pass, or leaves the loop, completes usedNamedTypes and returns, or
\* starts the next pass with no error recorded.
FinishPass(r) ==
  LET after == NumUnresolved(r.resolved)
      r1 == [r EXCEPT !.passes = @ + 1]
  IN
  IF NoProgress(r.before, after)
    THEN [r1 EXCEPT !.status = "thrown", !.message = "failed to resolve types"]
  ELSE IF after = 0 THEN
    IF \E w \in ClosureWalks(r.usedNamedTypes) : w.threw
      THEN [r1 EXCEPT !.status = "thrown",
                      !.message = "should not be undefined"]
      ELSE [r1 EXCEPT !.status = "returned",
                      !.usedNamedTypes = UsedNamedTypesClosure(@)]
  ELSE [r1 EXCEPT !.before = after, !.errors = <<>>, !.next = 1]

\* The value resolveTypes returns.
ContextOf(r) ==
  [usedNamedTypes |-> r.usedNamedTypes, operations |-> r.operations,
   fragments |-> r.fragments, fragmentDeps |-> r.fragmentDeps]

\* sortDictValues(d): the names of d, sorted.
sortDictValues(d) == SortNames(DOMAIN d)


\* resolveTypes run to its end from the state r of a call: the loop of
\* passes over the definitions, in the order of the code.
Min(S) == CHOOSE i \in S : \A j \in S : i <= j

RECURSIVE RunResolver(_)
RunResolver(r) ==
  IF r.status # "pass" THEN r
  ELSE IF Pending(r) = {} THEN RunResolver(FinishPass(r))
  ELSE RunResolver(ResolveDefinition(r, Min(Pending(r))))

\* `imports` of a call without imports (undefined)
NoImports ==
  [status |-> "ok", loadedImports |-> <<>>, loadedImportsMap |-> <<>>,
   rawImportData |-> <<>>, embedImports |-> FALSE]

\* resolveTypesSorted(schema, doc, imports) as one call
resolveTypes(doc, imports) == RunResolver(StartResolve(doc, imports))

(***************************************************************************)
(* loadImports.                                                            *)
(***************************************************************************)
\* The first position of x in the sequence s, 0 when absent.
IndexOf(s, x) ==
  IF x \in Range(s) THEN Min({i \in DOMAIN s : s[i] = x}) ELSE 0

\* String.prototype.replace(key, val) on a path: the first occurrence only.
ReplaceFirst(path, key, val) ==
  LET i == IndexOf(path, key) IN
  IF i = 0 THEN path
  ELSE SubSeq(path, 1, i - 1) \o val \o SubSeq(path, i + 1, Len(path))

\* The include rules of the run, "NAME=DIR=PREFIX", as includeAbbrevs and
\* prefixMap hold them: key @NAME, val DIR, prefix PREFIX.
Includes == << [key |-> "@lib", val |-> <<"libdir">>, prefix |-> <<"lib-pkg">>] >>

RECURSIVE ApplyIncludes(_, _)
ApplyIncludes(path, incs) ==
  IF incs = <<>> THEN path
  ELSE ApplyIncludes(ReplaceFirst(path, Head(incs).key, Head(incs).val),
                     Tail(incs))

\* _.uniq(_.map(specs, s => s.from)): the first occurrences, in order.
RECURSIVE Uniq(_)
Uniq(s) ==
  IF s = <<>> THEN <<>>
  ELSE LET init == Uniq(SubSeq(s, 1, Len(s) - 1)) IN
       IF s[Len(s)] \in Range(init) THEN init ELSE Append(init, s[Len(s)])

UniqueDirs(specs) == Uniq([i \in DOMAIN specs |-> specs[i].from])

\* fragmentWhitelistPerDir[d] (lines 99-117): "all" as soon as a spec of d
\* imports *, else the names its specs list.
Whitelist(specs, d) ==
  LET mine == SelectSeq(specs, LAMBDA sp : sp.from = d) IN
  IF \E sp \in Range(mine) : sp.what.kind = "all"
    THEN [kind |-> "all", names |-> {}]
    ELSE [kind |-> "some",
          names |-> UNION {Range(sp.what.names) : sp \in Range(mine)}]

\* A copy that does not follow deps: only the listed fragments.
OnlyListed(src, deps, todo, visited) == {k \in todo : Has(src, k)}

\* recursiveCopyFragments from `key`: the fragments of src reached through
\* deps, as a set of names (dst gets src's records).
RECURSIVE ReachedFragments(_, _, _, _)
ReachedFragments(src, deps, todo, visited) ==
  IF todo = {} THEN {k \in visited : Has(src, k)}
  ELSE
    LET key == CHOOSE k \in todo : TRUE IN
    IF key \in visited \/ ~Has(src, key)
      THEN ReachedFragments(src, deps, todo \ {key}, visited \cup {key})
      ELSE ReachedFragments(src, deps,
             (todo \cup (IF Has(deps, key) THEN Range(deps[key]) ELSE {}))
               \ {key},
             visited \cup {key})

\* The enums recursiveCopyFragments records for a copied fragment.
CopiedEnums(f) ==
  IF HasType(f.node.typeCondition)
    THEN EnumNames(walkType(TypeRef(f.node.typeCondition),
                            f.node.selectionSet).seen)
    ELSE {}

\* Lines 145-173: what embedImports keeps of the context of a directory.
PruneForEmbed(data, whitelist) ==
  LET d1 == [data EXCEPT !.operations = <<>>] IN
  IF whitelist.kind = "all" THEN d1
  ELSE
    LET kept == UNION {ReachedFragments(data.fragments, data.fragmentDeps,
                                        {key}, {}) : key \in whitelist.names}
    IN  [d1 EXCEPT
           !.fragments = [k \in kept |-> data.fragments[k]],
           !.usedNamedTypes = UNION {CopiedEnums(data.fragments[k]) : k \in kept}]

\* concatAST of the parsed files of a directory
RECURSIVE ConcatFiles(_)
ConcatFiles(files) ==
  IF files = <<>> THEN <<>> ELSE Head(files).defs \o ConcatFiles(Tail(files))

\* Lines 145-180: the context of directory d is pruned in embed mode and
\* stored in importedData and rawImportData.
StoreDir(d, r, specs, embedImports) ==
  IF r.status = "thrown"
    THEN [status |-> "thrown", reason |-> r.message, at |-> d]
    ELSE [status |-> "ok",
          rawImportData |->
             <<IF embedImports
                 THEN PruneForEmbed(ContextOf(r), Whitelist(specs, d))
                 ELSE ContextOf(r)>>,
          importedData |->
             (d :> IF embedImports
                     THEN PruneForEmbed(ContextOf(r), Whitelist(specs, d))
                     ELSE ContextOf(r))]

\* A load that takes a directory as it is, with no file or with files that
\* hold imports.
LoadDirUnchecked(d, dd, fs, specs, embedImports) ==
  StoreDir(d, resolveTypes(IF dd \in DOMAIN fs THEN ConcatFiles(fs[dd]) ELSE <<>>,
                           NoImports),
           specs, embedImports)

\* Lines 120-144: the files of directory d, found under dd, are read,
\* concatenated and resolved.
LoadDir(d, dd, fs, specs, embedImports) ==
  IF ~(dd \in DOMAIN fs) \/ fs[dd] = <<>>
    THEN [status |-> "thrown", reason |-> "failed resolving", at |-> d]
  ELSE IF \E file \in Range(fs[dd]) : file.hasImports
    THEN [status |-> "thrown", reason |-> "nested imports", at |-> d]
  ELSE StoreDir(d, resolveTypes(ConcatFiles(fs[dd]), NoImports), specs,
                embedImports)

\* Lines 119-187: `for (const d of uniqueDirs)`. A directory without
\* .graphql files throws; a directory with files is loaded, resolved and
\* stored, and then `break` leaves the loop over uniqueDirs: the
\* directories after the first are never loaded. importedData and
\* rawImportData so hold the first directory alone.
LoadDirs(dirs, fs, specs, embedImports) ==
  IF dirs = <<>>
    THEN [status |-> "ok", rawImportData |-> <<>>, importedData |-> <<>>]
    ELSE LoadDir(Head(dirs), ApplyIncludes(Head(dirs), Includes), fs, specs,
                 embedImports)

\* d[name] = true on an object that keeps the order of insertion
AddKey(keys, name) == IF name \in Range(keys) THEN keys ELSE Append(keys, name)

RECURSIVE AddKeys(_, _)
AddKeys(keys, names) ==
  IF names = <<>> THEN keys ELSE AddKeys(AddKey(keys, Head(names)), Tail(names))

\* Lines 190-203: importedFragments[path], the names requested from each
\* path in the order of their insertion, or the error of nonNull for a
\* path that importedData does not hold, or the error of a listed name
\* that the directory does not define.
RECURSIVE RequestedNames(_, _, _, _)
RequestedNames(specs, dirs, datas, acc) ==
  IF specs = <<>> THEN [status |-> "ok", names |-> acc]
  ELSE IF ~(Head(specs).from \in DOMAIN datas)
    THEN [status |-> "thrown", reason |-> "expected a non-null value",
          at |-> Head(specs).from]
  ELSE
    LET sp == Head(specs)
        k == IndexOf(dirs, sp.from)
        data == datas[sp.from]
    IN
    IF sp.what.kind = "all"
      THEN RequestedNames(Tail(specs), dirs, datas,
             [acc EXCEPT ![k] = AddKeys(@, sortDictValues(data.fragments))])
    ELSE IF \E i \in DOMAIN sp.what.names :
              ~Has(data.fragments, sp.what.names[i])
      THEN [status |-> "thrown", reason |-> "not found", at |-> sp.from]
    ELSE RequestedNames(Tail(specs), dirs, datas,
           [acc EXCEPT ![k] = AddKeys(@, sp.what.names)])

\* The (path, name) pairs in the order of the two nested _.forEach of
\* lines 206-224.
RECURSIVE RequestPairs(_, _)
RequestPairs(dirs, names) ==
  IF dirs = <<>> THEN <<>>
  ELSE [i \in DOMAIN names[1] |-> [path |-> dirs[1], name |-> names[1][i]]]
       \o RequestPairs(Tail(dirs), Tail(names))

\* Lines 205-224: outMap, or the error of a name imported from two paths.
RECURSIVE BuildOutMap(_, _, _, _)
BuildOutMap(pairs, dirs, datas, outMap) ==
  IF pairs = <<>> THEN [status |-> "ok", outMap |-> outMap]
  ELSE
    LET p == Head(pairs) IN
    IF Has(outMap, p.name)
      THEN [status |-> "thrown", reason |-> "imported twice",
            name |-> p.name, path |-> p.path,
            secondPath |-> outMap[p.name].path]
      ELSE
        LET data == datas[p.path] IN
        BuildOutMap(Tail(pairs), dirs, datas,
          Put(outMap, p.name,
              [name |-> p.name, path |-> p.path,
               fragment |-> data.fragments[p.name], context |-> data]))

\* Lines 226-232: the value loadImports returns.
ImportsOf(loaded, out, embedImports) ==
  IF out.status = "thrown" THEN out
  ELSE [status |-> "ok",
        loadedImports |->
           [i \in DOMAIN sortDictValues(out.outMap) |->
              out.outMap[sortDictValues(out.outMap)[i]]],
        loadedImportsMap |-> out.outMap,
        rawImportData |-> loaded.rawImportData,
        embedImports |-> embedImports]

\* Lines 189-224: the requested names are sorted out per path and outMap
\* is built from them.
SortOutImports(specs, dirs, loaded, req, embedImports) ==
  IF loaded.status = "thrown" THEN loaded
  ELSE IF req.status = "thrown" THEN req
  ELSE ImportsOf(loaded,
                 BuildOutMap(RequestPairs(dirs, req.names), dirs,
                             loaded.importedData, <<>>),
                 embedImports)

LoadedImports(specs, dirs, loaded, embedImports) ==
  SortOutImports(specs, dirs, loaded,
                 IF loaded.status = "thrown" THEN loaded
                 ELSE RequestedNames(specs, dirs, loaded.importedData,
                                     [i \in DOMAIN dirs |-> <<>>]),
                 embedImports)

loadImports(specs, fs, embedImports) ==
  LoadedImports(specs, UniqueDirs(specs),
                LoadDirs(UniqueDirs(specs), fs, specs, embedImports),
                embedImports)


(***************************************************************************)
(* addFragmentDepsRecursive: the keys `${path}:${frag}` it sets in deps.   *)
(***************************************************************************)
DepKey(path, frag) == path \o <<":", frag>>

LocalPath == <<"..">>

RECURSIVE addFragmentDepsRecursive(_, _, _, _, _)
addFragmentDepsRecursive(deps, frags, fragsMap, imports, path) ==
  IF frags = <<>> THEN deps
  ELSE
    LET frag == Head(frags)
        rest(d) == addFragmentDepsRecursive(d, Tail(frags), fragsMap,
                                            imports, path)
    IN
    IF Has(fragsMap, frag) THEN
      LET key == DepKey(path, frag) IN
      IF key \in deps THEN rest(deps)
      ELSE rest(addFragmentDepsRecursive(deps \cup {key}, fragsMap[frag],
                                         fragsMap, imports, path))
    ELSE IF Has(imports, frag) THEN
      LET imp == imports[frag]
          key == DepKey(imp.path, frag)
          ctxDeps == imp.context.fragmentDeps
      IN
      IF key \in deps THEN rest(deps)
      ELSE rest(addFragmentDepsRecursive(deps \cup {key},
                  IF Has(ctxDeps, frag) THEN ctxDeps[frag] ELSE <<>>,
                  ctxDeps, imports, imp.path))
    ELSE rest(deps \cup {DepKey(path, frag)})

\* The text of a sequence of tokens.
RECURSIVE Join(_)
Join(tokens) == IF tokens = <<>> THEN "" ELSE Head(tokens) \o Join(Tail(tokens))

\* _.split(dep, ":", 2): the text before the first ":" and the text
\* between the first and the second ":" (or the end).
Split2(dep) ==
  LET i == IndexOf(dep, ":")
      after == SubSeq(dep, i + 1, Len(dep))
      j == IndexOf(after, ":")
  IN  [path |-> SubSeq(dep, 1, i - 1),
       name |-> Join(IF j = 0 THEN after ELSE SubSeq(after, 1, j - 1))]

(***************************************************************************)
(* graphqlTypescriptCodegen, lines 244-258: the fragments added to the     *)
(* document for its validation, and validateDocument.                      *)
(***************************************************************************)
\* The names addFragmentDepsRecursive reaches from one import inside the
\* context it was imported from.
AdditionalNames(imp) ==
  {Split2(dep).name :
     dep \in addFragmentDepsRecursive({}, <<imp.name>>,
                                      imp.context.fragmentDeps, <<>>,
                                      LocalPath)}

\* nonNull(imp.context.fragments[name]) throws for one of them
AdditionalThrows(imports) ==
  \E imp \in Range(imports.loadedImports) :
    \E name \in AdditionalNames(imp) : ~Has(imp.context.fragments, name)

\* additionalFragments: by name, the definition of the last import (in the
\* order of loadedImports) that reaches the name.
RECURSIVE AdditionalFragments(_)
AdditionalFragments(loadedImports) ==
  IF loadedImports = <<>> THEN <<>>
  ELSE
    LET imp == loadedImports[Len(loadedImports)]
        init == AdditionalFragments(SubSeq(loadedImports, 1,
                                           Len(loadedImports) - 1))
    IN  [name \in AdditionalNames(imp) |-> imp.context.fragments[name].node]
        @@ init

\* concatAST([doc, ..._.values(additionalFragments)])
ValidatedDocument(doc, imports) ==
  LET add == AdditionalFragments(imports.loadedImports)
      names == sortDictValues(add)
  IN  doc \o [i \in DOMAIN names |-> add[names[i]]]

FragmentDefs(defs) == SelectSeq(defs, LAMBDA d : d.kind = "FragmentDefinition")
OperationDefs(defs) == SelectSeq(defs, LAMBDA d : d.kind = "OperationDefinition")

\* Every fragment spread of a selection set, those inside inline fragments
\* included, as the visitors of graphql-js see them.
RECURSIVE AllSpreads(_)
AllSpreads(ss) ==
  UNION {IF ss[i].kind = "FragmentSpread" THEN {ss[i].name}
         ELSE AllSpreads(ss[i].selectionSet) : i \in DOMAIN ss}

\* The fragments a set of names reaches through the spreads of their
\* definitions (graphql-js getRecursivelyReferencedFragments).
RECURSIVE SpreadClosure(_, _)
SpreadClosure(defs, names) ==
  LET more == UNION {AllSpreads(d.selectionSet) :
                       d \in {f \in Range(FragmentDefs(defs)) : f.name \in names}}
  IN  IF more \subseteq names THEN names
      ELSE SpreadClosure(defs, names \cup more)

\* FieldsOnCorrectType, ScalarLeafs, PossibleFragmentSpreads and
\* FragmentsOnCompositeTypes on a selection set of the named type `parent`.
RECURSIVE WellTyped(_, _, _)
WellTyped(defs, parent, ss) ==
  \A i \in DOMAIN ss :
    LET sel == ss[i] IN
    CASE sel.kind = "Field" /\ sel.name = "__typename" ->
           sel.selectionSet = <<>>
      [] sel.kind = "Field" ->
           /\ Has(SchemaTypes[parent].fields, sel.name)
           /\ LET ft == SchemaTypes[parent].fields[sel.name]
                  inner == IF isNonNullType(ft) THEN ft.ofType ELSE ft
                  inner2 == IF isListType(inner) THEN inner.ofType ELSE inner
                  named == IF isNonNullType(inner2) THEN inner2.ofType ELSE inner2
              IN  IF SchemaTypes[named.name].kind \in {"object", "interface"}
                    THEN /\ sel.selectionSet # <<>>
                         /\ WellTyped(defs, named.name, sel.selectionSet)
                    ELSE sel.selectionSet = <<>>
      [] sel.kind = "FragmentSpread" ->
           \A d \in Range(FragmentDefs(defs)) :
             d.name = sel.name => d.typeCondition = parent
      [] sel.kind = "InlineFragment" ->
           WellTyped(defs, parent, sel.selectionSet)

RECURSIVE NamedOfTypeNode(_)
NamedOfTypeNode(t) ==
  IF t.kind = "NamedType" THEN t.name ELSE NamedOfTypeNode(t.type)

\* The errors the rule NoAnonymousQueries reports: one for every operation
\* definition without a name.
AnonymousAllowed(defs) == {}

NoAnonymousQueries(defs) ==
  {"Script does not support anonymous operations" :
     o \in {d \in Range(defs) : d.kind = "OperationDefinition" /\ d.name = ""}}

\* A validation that lets two fragments have one name.
AnyFragmentNames(frags) == TRUE

\* UniqueFragmentNames of the specified rules
UniqueFragmentNames(frags) ==
  \A i, j \in DOMAIN frags : frags[i].name = frags[j].name => i = j

\* validate(schema, document, rules) reports no error: the rules of
\* graphql-js that a document of the model can break.
\* UniqueOperationNames and KnownDirectives are removed, NoUnusedFragments
\* is removed when allowUnusedFragments is set.
Validates(defs, allowUnusedFragments) ==
  LET frags == FragmentDefs(defs)
      ops == OperationDefs(defs)
      fragNames == {f.name : f \in Range(frags)}
  IN
  /\ NoAnonymousQueries(defs) = {}
  /\ UniqueFragmentNames(frags)
  \* KnownFragmentNames
  /\ \A d \in Range(defs) : AllSpreads(d.selectionSet) \subseteq fragNames
  \* NoFragmentCycles
  /\ \A f \in Range(frags) :
       f.name \notin SpreadClosure(defs, AllSpreads(f.selectionSet))
  \* NoUnusedFragments
  /\ \/ allowUnusedFragments
     \/ fragNames \subseteq
          SpreadClosure(defs, UNION {AllSpreads(o.selectionSet) :
                                       o \in Range(ops)})
  \* KnownTypeNames, FragmentsOnCompositeTypes
  /\ \A f \in Range(frags) :
       /\ HasType(f.typeCondition)
       /\ SchemaTypes[f.typeCondition].kind \in {"object", "interface"}
       /\ WellTyped(defs, f.typeCondition, f.selectionSet)
  \* the root type exists, FieldsOnCorrectType, VariablesAreInputTypes
  /\ \A o \in Range(ops) :
       /\ RootType(o.operation) # "none"
       /\ WellTyped(defs, RootType(o.operation), o.selectionSet)
       /\ \A vd \in Range(o.variableDefinitions) :
            /\ HasType(NamedOfTypeNode(vd.type))
            /\ SchemaTypes[NamedOfTypeNode(vd.type)].kind
                 \in {"scalar", "enum", "input"}


(***************************************************************************)
(* typeToString.                                                           *)
(***************************************************************************)
RECURSIVE identString(_)
identString(ident) == IF ident = 0 THEN "" ELSE "  " \o identString(ident - 1)

NullSuffix(t) == IF t.nullable = "true" THEN " | null" ELSE ""

RECURSIVE typeToString(_, _, _)
RECURSIVE fieldsToString(_, _, _, _)
RECURSIVE joinTypes(_, _, _)
typeToString(t, ident, useUndefined) ==
  CASE t.type = "object" ->
         LET fields == SortNames(DOMAIN t.fields) IN
         "{" \o (IF fields # <<>> THEN "\n" ELSE "")
             \o fieldsToString(t.fields, fields, ident, useUndefined)
             \o identString(ident) \o "}" \o NullSuffix(t)
    [] t.type = "named" -> t.name \o NullSuffix(t)
    [] t.type = "array" ->
         "Array<" \o typeToString(t.element, ident, useUndefined) \o ">"
                  \o NullSuffix(t)
    [] t.type = "intersection" ->
         "(" \o joinTypes(t.types, ident, useUndefined) \o ")" \o NullSuffix(t)

fieldsToString(dict, fields, ident, useUndefined) ==
  IF fields = <<>> THEN ""
  ELSE
    LET ft == dict[Head(fields)] IN
    identString(ident + 1) \o Head(fields)
      \o (IF ft.nullable = "true" /\ useUndefined THEN "?" ELSE "") \o ": "
      \o typeToString(ft, ident + 1, useUndefined) \o ";\n"
      \o fieldsToString(dict, Tail(fields), ident, useUndefined)

joinTypes(types, ident, useUndefined) ==
  IF types = <<>> THEN ""
  ELSE typeToString(Head(types), ident, useUndefined)
       \o (IF Len(types) > 1 THEN " & " ELSE "")
       \o joinTypes(Tail(types), ident, useUndefined)

(***************************************************************************)
(* generate: the sections of the types module and the files.               *)
(***************************************************************************)
\* mapPrefix(prefixMap, v): each key @NAME replaced, once, by its prefix.
RECURSIVE mapPrefix(_, _)
mapPrefix(incs, v) ==
  IF incs = <<>> THEN v
  ELSE mapPrefix(Tail(incs), ReplaceFirst(v, Head(incs).key, Head(incs).prefix))

\* An import line `import ${name} from "${from}/fragments/${name}";`
ImportLine(name, from) == [name |-> name, from |-> from]

LineBefore(a, b) ==
  \/ IndexOf(NameOrder, a.name) < IndexOf(NameOrder, b.name)
  \/ /\ a.name = b.name
     /\ IndexOf(NameOrder, Join(a.from)) < IndexOf(NameOrder, Join(b.from))

\* _.keys(allDepImports).sort()
RECURSIVE SortLines(_)
SortLines(S) ==
  IF S = {} THEN <<>>
  ELSE LET m == CHOOSE x \in S : \A y \in S \ {x} : LineBefore(x, y)
       IN  <<m>> \o SortLines(S \ {m})

\* Lines 127-153 for one operation: the keys of every fragment spread by
\* the operation, split again into path and name.
OperationDeps(node, fragmentDeps, loadedImportsMap) ==
  LET fragNames == SortNames(SpreadsOf(node.selectionSet).seen) IN
  UNION {addFragmentDepsRecursive({}, <<fragNames[i]>>, fragmentDeps,
                                  loadedImportsMap, LocalPath) :
           i \in DOMAIN fragNames}

OperationFile(name, node, fragmentDeps, loadedImportsMap) ==
  LET deps == {Split2(dep) : dep \in OperationDeps(node, fragmentDeps,
                                                   loadedImportsMap)}
  IN  [name |-> name,
       depImports |-> SortLines({ImportLine(d.name, mapPrefix(Includes, d.path)) :
                                   d \in deps}),
       depNames |-> SortNames({d.name : d \in deps}),
       meta |-> name \o "Meta"]

\* One declaration of the named-type section (lines 98-109); a name that
\* is neither an enum nor an input object declares nothing.
NamedDeclaration(name, fragments, loadedImportsMap) ==
  IF HasType(name) /\ isEnumType(TypeRef(name))
    THEN <<[name |-> name, kind |-> "enum",
            type |-> TSNamed(name, "false")]>>
  ELSE IF HasType(name) /\ isInputObjectType(TypeRef(name))
    THEN <<[name |-> name, kind |-> "input",
            type |-> SetNotNullable(convertType(TypeRef(name), <<>>, fragments,
                                                loadedImportsMap, TRUE, TRUE))]>>
  ELSE <<>>

RECURSIVE NamedSection(_, _, _)
NamedSection(names, fragments, loadedImportsMap) ==
  IF names = <<>> THEN <<>>
  ELSE NamedDeclaration(Head(names), fragments, loadedImportsMap)
       \o NamedSection(Tail(names), fragments, loadedImportsMap)

\* generate, after its call of resolveTypesSorted returned the state r.
GenerateFrom(r, imports) ==
  LET loadedImportsMap ==
        IF imports.embedImports THEN <<>> ELSE imports.loadedImportsMap
      impNames == sortDictValues(loadedImportsMap)
      fragNames == sortDictValues(r.fragments)
      opNames == sortDictValues(r.operations)
  IN
  IF \E n \in DOMAIN r.operations :
       SpreadsOf(r.operations[n].node.selectionSet).threw
    THEN [status |-> "thrown", reason |-> "not implemented yet"]
    ELSE
      [status |-> "ok",
       typeImports |->
          [i \in DOMAIN impNames |->
             [name |-> impNames[i] \o "Fragment",
              from |-> mapPrefix(Includes, loadedImportsMap[impNames[i]].path)]],
       named |-> NamedSection(SortNames(r.usedNamedTypes), r.fragments,
                              loadedImportsMap),
       fragments |->
          [i \in DOMAIN fragNames |->
             [name |-> fragNames[i] \o "Fragment",
              type |-> r.fragments[fragNames[i]].type]],
       operations |->
          [i \in DOMAIN opNames |->
             [name |-> opNames[i],
              operation |-> r.operations[opNames[i]].operation,
              variables |-> r.operations[opNames[i]].variables]],
       fragmentFiles |-> fragNames,
       operationFiles |->
          [i \in DOMAIN opNames |->
             OperationFile(opNames[i], r.operations[opNames[i]].node,
                           r.fragmentDeps, loadedImportsMap)]]

\* generate(schema, doc, imports, config)
generate(doc, imports) ==
  LET r == resolveTypes(doc, imports) IN
  IF r.status = "thrown"
    THEN [status |-> "thrown", reason |-> r.message]
    ELSE GenerateFrom(r, imports)


(***************************************************************************)
(* The inputs of the runs: the directories on disk, the import lines and   *)
(* the definitions of the local .graphql files.                            *)
(***************************************************************************)
ImportAll(from) == [from |-> from, what |-> [kind |-> "all", names |-> <<>>]]
ImportSome(from, names) ==
  [from |-> from, what |-> [kind |-> "some", names |-> names]]

File(defs) == [defs |-> defs, hasImports |-> FALSE]
FileWithImports(defs) == [defs |-> defs, hasImports |-> TRUE]

LibPath == <<"@lib">>
ColonPath == <<"C", ":", "/y">>
OtherPath == <<"other">>
EmptyPath == <<"empty">>
NestedPath == <<"nested">>

\* The .graphql files glob.sync finds under each directory.
\*   libdir:  fragment F on Item { id at }   fragment G on Item { n ...F }
\*            query L($u: Unit) { item { size } }
\*   C:/y:    fragment F on Item { id }   fragment K on Item { size ...F }
\*            query P { item { color } }
\*   other:   fragment H on Item { ...Missing }   fragment J on Item { id color }
\*   empty:   no file
\*   nested:  a file with an import line
FS ==
  (<<"libdir">> :>
     << File(<< FragmentDef("F", "Item", <<Field("id", <<>>), Field("at", <<>>)>>),
                FragmentDef("G", "Item", <<Field("n", <<>>), Spread("F")>>) >>),
        File(<< OperationDef("query", "L",
                  << [name |-> "u", type |-> NamedTypeNode("Unit")] >>,
                  << Field("item", <<Field("size", <<>>)>>) >>) >>) >>)
  @@ (ColonPath :>
     << File(<< FragmentDef("F", "Item", <<Field("id", <<>>)>>),
                FragmentDef("K", "Item", <<Field("size", <<>>), Spread("F")>>) >>),
        File(<< OperationDef("query", "P", <<>>,
                  << Field("item", <<Field("color", <<>>)>>) >>) >>) >>)
  @@ (OtherPath :>
     << File(<< FragmentDef("H", "Item", <<Spread("Missing")>>),
                FragmentDef("J", "Item", <<Field("id", <<>>),
                                           Field("color", <<>>)>>) >>) >>)
  @@ (EmptyPath :> <<>>)
  @@ (NestedPath :>
     << FileWithImports(<< FragmentDef("F", "Item", <<Field("id", <<>>)>>) >>) >>)

\* The import lines a local file can hold (what extractImportSpecs returns
\* for them).
SpecPool ==
  << ImportAll(LibPath),
     ImportSome(LibPath, <<"G">>),
     ImportSome(ColonPath, <<"K">>),
     ImportSome(ColonPath, <<"F">>),
     ImportSome(OtherPath, <<"J">>),
     ImportSome(LibPath, <<"Missing">>),
     ImportAll(EmptyPath),
     ImportAll(NestedPath) >>

\* The definitions a local file can hold. The arguments of fields are left
\* out (they play no part in the generated types); every variable is used
\* by some argument.
Var(name, type) == [name |-> name, type |-> type]

LocalDefs ==
  << \* fragment A on Item { id ...B }
     FragmentDef("A", "Item", <<Field("id", <<>>), Spread("B")>>),
     \* fragment B on Item { size subs { id } ...G }
     FragmentDef("B", "Item",
       <<Field("size", <<>>), Field("subs", <<Field("id", <<>>)>>), Spread("G")>>),
     \* fragment B on Item { n color opts { owner { id } } }
     FragmentDef("B", "Item",
       <<Field("n", <<>>), Field("color", <<>>),
         Field("opts", <<Field("owner", <<Field("id", <<>>)>>)>>)>>),
     \* fragment C on Item { ...B }
     FragmentDef("C", "Item", <<Spread("B")>>),
     \* query Q($f: Filter, $id: ID!, $d: DateTime) { item { n ...A ...B } }
     OperationDef("query", "Q",
       << Var("f", NamedTypeNode("Filter")),
          Var("id", NonNullTypeNode(NamedTypeNode("ID"))),
          Var("d", NamedTypeNode("DateTime")) >>,
       << Field("item", <<Field("n", <<>>), Spread("A"), Spread("B")>>) >>),
     \* query Q { items { ...K } }
     OperationDef("query", "Q", <<>>, << Field("items", <<Spread("K")>>) >>),
     \* query R($c: Color!, $xs: [Extra!]) { item { at sub { id ...B } req { ...C } } }
     OperationDef("query", "R",
       << Var("c", NonNullTypeNode(NamedTypeNode("Color"))),
          Var("xs", ListTypeNode(NonNullTypeNode(NamedTypeNode("Extra")))) >>,
       << Field("item", <<Field("at", <<>>),
                          Field("sub", <<Field("id", <<>>), Spread("B")>>),
                          Field("req", <<Spread("C")>>)>>) >>),
     \* mutation M($r: Range!) { save { b: id ...B } }
     OperationDef("mutation", "M",
       << Var("r", NonNullTypeNode(NamedTypeNode("Range"))) >>,
       << Field("save", <<Aliased("b", "id", <<>>), Spread("B")>>) >>),
     \* query Q { item { ... { id } } }
     OperationDef("query", "Q", <<>>,
       << Field("item", <<Inline(<<Field("id", <<>>)>>)>>) >>),
     \* query R { item { id ...C } }
     OperationDef("query", "R", <<>>,
       << Field("item", <<Field("id", <<>>), Spread("C")>>) >>),
     \* query Q { item { ...G n } }
     OperationDef("query", "Q", <<>>,
       << Field("item", <<Spread("G"), Field("n", <<>>)>>) >>),
     \* query T { item { __typename id } }
     OperationDef("query", "T", <<>>,
       << Field("item", <<Field("__typename", <<>>), Field("id", <<>>)>>) >>),
     \* query U { item { sub { ...C } req { ...C } } }
     OperationDef("query", "U", <<>>,
       << Field("item", <<Field("sub", <<Spread("C")>>),
                          Field("req", <<Spread("C")>>)>>) >>) >>

\* The most definitions in the local files of a run, and the most import
\* lines.
MaxDefs == 3
MaxSpecs == 2

\* concatAST of the local files: the chosen definitions in their order.
DocOf(pool, S) == SelectSeq(pool, LAMBDA d : \E i \in S : pool[i] = d)

Docs(pool, k) ==
  {DocOf(pool, S) : S \in {T \in SUBSET (DOMAIN pool) : Cardinality(T) <= k}}

SpecLists(k) == UNION {[1..n -> Range(SpecPool)] : n \in 0..k}


(***************************************************************************)
(* The run of graphqlTypescriptCodegen.                                    *)
(*   pc        the position of the run                                     *)
(*   doc       the definitions of the local files (concatAST)              *)
(*   specs     allImports, the import lines of the local files             *)
(*   embedImports, allowUnusedFragments   the configuration                *)
(*   imports   what loadImports returned, or its error                     *)
(*   rs        the state of the call of resolveTypes                       *)
(*   prev      the finished state of an earlier call of resolveTypes       *)
(*   out       what generate returned                                      *)
(*   err       the message of the error that ended the run                 *)
(***************************************************************************)
VARIABLES pc, doc, specs, embedImports, allowUnusedFragments, imports, rs,
          prev, out, err, disk, run

vars == <<pc, doc, specs, embedImports, allowUnusedFragments, imports, rs,
          prev, out, err, disk, run>>

\* The *.ts files of the target directory and the bookkeeping of a run,
\* for the specifications that do not write files.
NoDisk == <<>>
NoRun == [count |-> 0]

NoOutput == [status |-> "none"]

Init ==
  /\ pc = "read"
  /\ \/ doc \in Docs(LocalDefs, MaxDefs) /\ specs \in SpecLists(1)
     \/ doc \in Docs(LocalDefs, 1) /\ specs \in SpecLists(MaxSpecs)
  /\ embedImports \in BOOLEAN
  /\ allowUnusedFragments \in BOOLEAN
  /\ imports = NoImports
  /\ rs = NoResolver
  /\ prev = NoResolver
  /\ out = NoOutput
  /\ err = ""
  /\ disk = NoDisk
  /\ run = NoRun

\* const imports = loadImports(allImports, config.includes, schema,
\*                             config.embedImports)
LoadImports ==
  /\ pc = "read"
  /\ imports' = loadImports(specs, FS, embedImports)
  /\ IF imports'.status = "ok"
       THEN pc' = "imports" /\ err' = err
       ELSE pc' = "failed" /\ err' = imports'.reason
  /\ UNCHANGED <<doc, specs, embedImports, allowUnusedFragments, rs, prev, out,
                 disk, run>>

\* Lines 244-258: additionalFragments and validateDocument.
Validate ==
  /\ pc = "imports"
  /\ IF AdditionalThrows(imports)
       THEN pc' = "failed" /\ err' = "expected a non-null value"
     ELSE IF \E validated \in {ValidatedDocument(doc, imports)} :
               ~Validates(validated, allowUnusedFragments)
       THEN pc' = "failed" /\ err' = "validation"
     ELSE pc' = "valid" /\ err' = err
  /\ UNCHANGED <<doc, specs, embedImports, allowUnusedFragments, imports, rs,
                 prev, out,
                 disk, run>>

\* const data = generate(schema, doc, imports, config)
Generate ==
  /\ pc = "valid"
  /\ rs' = resolveTypes(doc, imports)
  /\ IF rs'.status = "thrown"
       THEN /\ out' = [status |-> "thrown", reason |-> rs'.message]
            /\ imports' = imports
       ELSE /\ out' = GenerateFrom(rs', imports)
            /\ imports' = IF imports.embedImports
                            THEN [imports EXCEPT !.loadedImportsMap = <<>>]
                            ELSE imports
  /\ IF out'.status = "ok"
       THEN pc' = "generated" /\ err' = err
       ELSE pc' = "failed" /\ err' = out'.reason
  /\ UNCHANGED <<doc, specs, embedImports, allowUnusedFragments, prev,
                 disk, run>>

Next == LoadImports \/ Validate \/ Generate

Spec == Init /\ [][Next]_vars


(***************************************************************************)
(* resolveTypes step by step: one iteration of the loop over the           *)
(* definitions, the end of a pass, and a second call on the same           *)
(* definitions in another order. The documents are those the two callers   *)
(* hand over: loadImports the files of a directory as they are, without    *)
(* imports; generate a validated document with its imports.                *)
(***************************************************************************)
ResolveDefs ==
  << LocalDefs[1], LocalDefs[3], LocalDefs[4], LocalDefs[2],
     \* fragment H on Item { ...Missing }
     FragmentDef("H", "Item", <<Spread("Missing")>>),
     \* fragment X on Item { id ...Missing }
     FragmentDef("X", "Item", <<Field("id", <<>>), Spread("Missing")>>),
     LocalDefs[5],
     \* subscription S { item { id } }
     OperationDef("subscription", "S", <<>>,
       << Field("item", <<Field("id", <<>>)>>) >>),
     LocalDefs[10],
     \* fragment Y on Nope { id ...Missing }
     FragmentDef("Y", "Nope", <<Field("id", <<>>), Spread("Missing")>>),
     \* query A { item { id } }
     OperationDef("query", "A", <<>>, << Field("item", <<Field("id", <<>>)>>) >>),
     \* query A { item { n } }
     OperationDef("query", "A", <<>>, << Field("item", <<Field("n", <<>>)>>) >>),
     \* fragment D on Item { owner { id ...Missing } }
     FragmentDef("D", "Item",
       <<Field("owner", <<Field("id", <<>>), Spread("Missing")>>)>>) >>

\* The most definitions of a document handed to resolveTypes.
MaxResolveDefs == 3

\* The documents of at most k definitions of a pool, in every order.
Orders(pool, k) ==
  UNION {{[i \in 1..n |-> pool[f[i]]] :
            f \in {g \in [1..n -> DOMAIN pool] :
                     \A a, b \in 1..n : g[a] = g[b] => a = b}} : n \in 1..k}

\* The same definitions in the order of the pool.
Canonical(pool, d) == SelectSeq(pool, LAMBDA x : x \in Range(d))

\* What loadImports returns for `import * from "@lib"`, linked and embedded.
LibImportsLinked == loadImports(<<ImportAll(LibPath)>>, FS, FALSE)
LibImportsEmbedded == loadImports(<<ImportAll(LibPath)>>, FS, TRUE)

InitResolve ==
  /\ pc = "first"
  /\ doc \in Orders(ResolveDefs, MaxResolveDefs)
  /\ \/ specs = <<>> /\ imports = NoImports /\ embedImports = FALSE
     \/ /\ specs = <<ImportAll(LibPath)>>
        /\ \/ embedImports = FALSE /\ imports = LibImportsLinked
           \/ embedImports = TRUE /\ imports = LibImportsEmbedded
        /\ ~AdditionalThrows(imports)
        /\ \E validated \in {ValidatedDocument(doc, imports)} :
             Validates(validated, TRUE)
  /\ allowUnusedFragments = TRUE
  /\ rs = StartResolve(doc, imports)
  /\ prev = NoResolver
  /\ out = NoOutput
  /\ err = ""
  /\ disk = NoDisk
  /\ run = NoRun

\* One iteration of `for (const ndef of namedDefinitions)`: the next
\* definition that is not resolved.
ResolveDef ==
  /\ rs.status = "pass"
  /\ Pending(rs) # {}
  /\ rs' = ResolveDefinition(rs, Min(Pending(rs)))
  /\ UNCHANGED <<pc, doc, specs, embedImports, allowUnusedFragments, imports,
                 prev, out, err, disk, run>>

\* The loop over the definitions has ended: lines 780-804.
EndPass ==
  /\ rs.status = "pass"
  /\ Pending(rs) = {}
  /\ rs' = FinishPass(rs)
  /\ UNCHANGED <<pc, doc, specs, embedImports, allowUnusedFragments, imports,
                 prev, out, err, disk, run>>

\* A second call, on the same definitions in the order of the pool.
ResolveAgain ==
  /\ pc = "first"
  /\ rs.status \in {"returned", "thrown"}
  /\ pc' = "second"
  /\ prev' = rs
  /\ doc' = Canonical(ResolveDefs, doc)
  /\ rs' = StartResolve(doc', imports)
  /\ UNCHANGED <<specs, embedImports, allowUnusedFragments, imports, out, err,
                 disk, run>>

NextResolve == ResolveDef \/ EndPass \/ ResolveAgain

SpecResolve == InitResolve /\ [][NextResolve]_vars


(***************************************************************************)
(* graphqlTypescriptCodegen as a whole run on a target directory: the      *)
(* snapshot of its *.ts files, the writes and the orphans. A path is the   *)
(* sequence of the pieces of its string: names, "/", "." and the           *)
(* extensions ".ts" and ".unused".                                         *)
(***************************************************************************)
\* The segments of a path between its separators; empty segments vanish.
RECURSIVE Segments(_, _)
Segments(path, cur) ==
  IF path = <<>> THEN (IF cur = <<>> THEN <<>> ELSE <<cur>>)
  ELSE IF Head(path) = "/"
    THEN (IF cur = <<>> THEN <<>> ELSE <<cur>>) \o Segments(Tail(path), <<>>)
  ELSE Segments(Tail(path), Append(cur, Head(path)))

RECURSIVE JoinSegments(_)
JoinSegments(segs) ==
  IF segs = <<>> THEN <<>>
  ELSE IF Len(segs) = 1 THEN segs[1]
  ELSE segs[1] \o <<"/">> \o JoinSegments(Tail(segs))

\* path.normalize on a relative path without "..": repeated separators,
\* "." segments and a trailing separator are dropped.
normalize(path) ==
  JoinSegments(SelectSeq(Segments(path, <<>>), LAMBDA seg : seg # <<".">>))

\* path.join(a, b)
pathJoin(a, b) == normalize(a \o <<"/">> \o b)

\* The template string `${a}/${b}`
Template(a, b) == a \o <<"/">> \o b

\* config.directory as it can be typed on the command line.
TargetDirs == {<<"gql">>, <<"gql", "/">>, <<".", "/", "gql">>}

\* The names of the generated files, relative to the target directory.
TypesName == <<"types", ".ts">>
FragmentFileName(name) == <<"fragments", "/", name, ".ts">>
OperationFileName(name) == <<"operations", "/", name, ".ts">>

\* data.types
TypesText(o) ==
  [typeImports |-> o.typeImports, named |-> o.named,
   fragments |-> o.fragments, operations |-> o.operations]

\* data.files: the fragment files, then the operation files.
GeneratedFiles(o, r) ==
  [i \in DOMAIN o.fragmentFiles |->
     [name |-> FragmentFileName(o.fragmentFiles[i]),
      text |-> r.fragments[o.fragmentFiles[i]].node]]
  \o [i \in DOMAIN o.operationFiles |->
        [name |-> OperationFileName(o.operationFiles[i].name),
         text |-> [file |-> o.operationFiles[i],
                   node |-> r.operations[o.operationFiles[i].name].node]]]

\* The writes of lines 263-268 in their order: the path handed to
\* writeFileIfChanged, the key deleted from tsFilePathsMap, the content.
PlannedWrites(dir, o, r) ==
  << [path |-> pathJoin(dir, TypesName), key |-> Template(dir, TypesName),
      text |-> TypesText(o)] >>
  \o [i \in DOMAIN GeneratedFiles(o, r) |->
        [path |-> Template(dir, GeneratedFiles(o, r)[i].name),
         key |-> Template(dir, GeneratedFiles(o, r)[i].name),
         text |-> GeneratedFiles(o, r)[i].text]]

\* The file of the disk a path names.
FileAt(path) == normalize(path)

\* writeFileIfChanged skips the write when the file holds the content.
Unchanged(d, path, content) == Has(d, FileAt(path)) /\ d[FileAt(path)] = content

writeFileIfChanged(d, path, content) ==
  IF Unchanged(d, path, content) THEN d ELSE Put(d, FileAt(path), content)

RECURSIVE WriteAll(_, _)
WriteAll(d, writes) ==
  IF writes = <<>> THEN d
  ELSE WriteAll(writeFileIfChanged(d, Head(writes).path, Head(writes).text),
                Tail(writes))

\* A directory on the disk.
Directory == [directory |-> TRUE]

\* Lines 260-262: fs.mkdirSync(dir, { recursive: true }) for the fragments
\* and the operations directory; a directory that is there is left alone.
OutputDirs(dir) ==
  {pathJoin(dir, <<"fragments">>), pathJoin(dir, <<"operations">>)}

MakeDirs(d, dirs) == [p \in dirs \ DOMAIN d |-> Directory] @@ d

\* A run that makes its directories before it reads anything.
DirsMadeFirst(d, dirs) == MakeDirs(d, dirs)

\* Lines 224-237 read the directory (glob.sync, loadGraphQLFromFile): the
\* disk is left as it was.
AfterLoading(d, dirs) == d

\* The calls of writeFileIfChanged that did write.
RECURSIVE NumWritten(_, _)
NumWritten(d, writes) ==
  IF writes = <<>> THEN 0
  ELSE (IF Unchanged(d, Head(writes).path, Head(writes).text) THEN 0 ELSE 1)
       + NumWritten(writeFileIfChanged(d, Head(writes).path, Head(writes).text),
                    Tail(writes))

\* glob.sync(path.join(config.directory, "**", "*.ts")): the files of the
\* target directory whose name ends in .ts, as paths under the normalized
\* pattern.
Glob(d) == {p \in DOMAIN d : p[Len(p)] = ".ts"}

\* fs.unlinkSync of every unused file.
Unlinked(d, unused) ==
  [p \in DOMAIN d \ {FileAt(f) : f \in unused} |-> d[p]]

\* fs.renameSync(f, f + ".unused") of every unused file.
Renamed(d, unused) ==
  LET gone == {FileAt(f) : f \in unused}
      made == {FileAt(f \o <<".unused">>) : f \in unused}
  IN  [p \in (DOMAIN d \ gone) \cup made |->
         IF p \in made
           THEN d[FileAt(CHOOSE f \in unused : FileAt(f \o <<".unused">>) = p)]
           ELSE d[p]]

\* The runs of the command on one target directory, one after another on
\* unchanged .graphql files.
\*   disk   the files under the target directory: normalized path -> content
\*   run    count      the number of the run
\*          directory  config.directory as typed
\*          quiet      config.quiet
\*          before     the disk when the run started
\*          snapshot   the keys of tsFilePathsMap when the run started
\*          planned    the writes of the run after generate
\*          written    the calls of writeFileIfChanged that wrote
\*          orphans    unusedFiles
\*          handled    "none", "renamed" or "deleted"
MaxRuns == 2

NewRun(count, directory, quiet, d) ==
  [count |-> count, directory |-> directory, quiet |-> quiet, before |-> d,
   snapshot |-> {}, planned |-> <<>>, written |-> 0, orphans |-> {},
   handled |-> "none"]

\* A file the generator did not write.
Stale == [stale |-> TRUE]

GqlFile(rest) == <<"gql", "/">> \o rest

\* The target directory before the first run: empty, or holding files of
\* an earlier state of the project.
InitialDisks ==
  { <<>>,
    (GqlFile(OperationFileName("Old")) :> Stale)
      @@ (GqlFile(<<"operations">>) :> Directory),
    (GqlFile(TypesName) :> Stale) @@ (GqlFile(<<"util", ".ts">>) :> Stale) }

\* query { item { id } }
AnonymousQuery == OperationDef("query", "", <<>>, << Field("item", <<Field("id", <<>>)>>) >>)

\* fragment F on Item { n }   query S { item { ...G ...F } }
SharedNameDoc ==
  << FragmentDef("F", "Item", <<Field("n", <<>>)>>),
     OperationDef("query", "S", <<>>,
       << Field("item", <<Spread("G"), Spread("F")>>) >>) >>

RunDocs ==
  {DocOf(LocalDefs, S) : S \in {{12}, {3, 4, 13}, {3, 8}, {11}, {2, 8}}}
  \cup { <<AnonymousQuery>>, <<LocalDefs[3], AnonymousQuery, LocalDefs[8]>>,
         SharedNameDoc }

RunSpecs == { <<>>, <<ImportAll(LibPath)>>, <<ImportSome(LibPath, <<"G">>)>> }

InitRun ==
  /\ pc = "start"
  /\ doc \in RunDocs
  /\ specs \in RunSpecs
  /\ embedImports = FALSE
  /\ allowUnusedFragments \in BOOLEAN
  /\ imports = NoImports
  /\ rs = NoResolver
  /\ prev = NoResolver
  /\ out = NoOutput
  /\ err = ""
  /\ disk \in InitialDisks
  /\ \E directory \in TargetDirs, quiet \in BOOLEAN :
       run = NewRun(1, directory, quiet, disk)

\* Lines 224-226: tsFilePathsMap.
Snapshot ==
  /\ pc = "start"
  /\ pc' = "read"
  /\ run' = [run EXCEPT !.snapshot = Glob(disk), !.before = disk]
  /\ disk' = AfterLoading(disk, OutputDirs(run.directory))
  /\ UNCHANGED <<doc, specs, embedImports, allowUnusedFragments, imports, rs,
                 prev, out, err>>

\* Lines 260-269: the writes, and what is left of tsFilePathsMap.
WriteFiles ==
  /\ pc = "generated"
  /\ pc' = "written"
  /\ \E writes \in {PlannedWrites(run.directory, out, rs)} :
       /\ disk' = WriteAll(MakeDirs(disk, OutputDirs(run.directory)), writes)
       /\ run' = [run EXCEPT
                    !.planned = writes,
                    !.written = NumWritten(disk, writes),
                    !.orphans = run.snapshot \ {writes[i].key : i \in DOMAIN writes}]
  /\ UNCHANGED <<doc, specs, embedImports, allowUnusedFragments, imports, rs,
                 prev, out, err>>

\* Lines 270-295: the unused files are renamed in a quiet run, and deleted
\* or renamed as the prompt is answered otherwise.
HandleOrphans ==
  /\ pc = "written"
  /\ pc' = "done"
  /\ IF run.orphans = {}
       THEN disk' = disk /\ run' = run
       ELSE \E confirmed \in (IF run.quiet THEN {FALSE} ELSE BOOLEAN) :
              IF confirmed
                THEN /\ disk' = Unlinked(disk, run.orphans)
                     /\ run' = [run EXCEPT !.handled = "deleted"]
                ELSE /\ disk' = Renamed(disk, run.orphans)
                     /\ run' = [run EXCEPT !.handled = "renamed"]
  /\ UNCHANGED <<doc, specs, embedImports, allowUnusedFragments, imports, rs,
                 prev, out, err>>

\* The command is run again on the same directory with the same options.
RunAgain ==
  /\ pc = "done"
  /\ run.count < MaxRuns
  /\ pc' = "start"
  /\ run' = NewRun(run.count + 1, run.directory, run.quiet, disk)
  /\ imports' = NoImports
  /\ rs' = NoResolver
  /\ out' = NoOutput
  /\ UNCHANGED <<doc, specs, embedImports, allowUnusedFragments, prev, err, disk>>

NextRun ==
  Snapshot \/ LoadImports \/ Validate \/ Generate \/ WriteFiles
  \/ HandleOrphans \/ RunAgain

SpecRun == InitRun /\ [][NextRun]_vars


(***************************************************************************)
(* The content-model command: the schemas (content-model.ts) and           *)
(* contentModelTypescriptCodegen. A JSON value is a record of its          *)
(* properties, an array a sequence.                                        *)
(***************************************************************************)
ContentModelStringKind ==
  {"brand_id", "category_id", "color", "content_block_id", "dropdown",
   "file_id", "image_file_id", "product_id", "radio", "string", "textarea",
   "variant_id", "web_url"}
ContentModelNumberKind == {"number", "percentage", "rating"}
ContentModelBooleanKind == {"checkbox", "toggle"}
ContentModelDatetimeKind == {"date", "datetime"}

\* ss.optional(ss.array(ContentModelEnumValue)) of ContentModelStringValidation
IsStringValidation(v) ==
  Has(v, "enum") => \A i \in DOMAIN v.enum :
                      Has(v.enum[i], "label") /\ Has(v.enum[i], "value")

IsNonObjectContentModelType(v) ==
  /\ Has(v, "type") /\ Has(v, "kind")
  /\ CASE v.type = "string" ->
            /\ v.kind \in ContentModelStringKind
            /\ Has(v, "validation") => IsStringValidation(v.validation)
       [] v.type = "datetime" -> v.kind \in ContentModelDatetimeKind
       [] v.type = "boolean" -> v.kind \in ContentModelBooleanKind
       [] v.type = "number" -> v.kind \in ContentModelNumberKind
       [] OTHER -> FALSE

IsContentModelType(v) ==
  /\ Has(v, "type")
  /\ IF v.type = "object"
       THEN /\ Has(v, "fields")
            /\ \A i \in DOMAIN v.fields :
                 /\ IsNonObjectContentModelType(v.fields[i])
                 /\ Has(v.fields[i], "name")
       ELSE IsNonObjectContentModelType(v)

IsContentModelSchema(j) ==
  Has(j, "name") /\ Has(j, "json") /\ IsContentModelType(j.json)

\* A text that holds JSON, and one that does not.
Json(value) == [wellFormed |-> TRUE, value |-> value]
NotJson == [wellFormed |-> FALSE]

parseContentModelSchema(data) ==
  IF ~data.wellFormed
    THEN Thrown("failed parsing content model schema: invalid json")
  ELSE IF ~IsContentModelSchema(data.value)
    THEN Thrown("failed parsing content model schema")
  ELSE data.value

\* JSON.stringify of a string without characters to escape.
Stringify(s) == "\"" \o s \o "\""

\* _.join(strs, sep)
RECURSIVE JoinStrings(_, _)
JoinStrings(strs, sep) ==
  IF strs = <<>> THEN ""
  ELSE IF Len(strs) = 1 THEN strs[1]
  ELSE strs[1] \o sep \o JoinStrings(Tail(strs), sep)

\* The validator of an earlier emitter, which knows no enums.
RECURSIVE generateTypeForPlain(_)
generateTypeForPlain(v) ==
  CASE v.type = "boolean" -> "ss.boolean()"
    [] v.type \in {"string", "datetime"} -> "ss.string()"
    [] v.type = "number" -> "ss.number()"
    [] v.type = "object" ->
         "ss.type({"
         \o JoinStrings([i \in DOMAIN v.fields |->
                           Stringify(v.fields[i].name) \o ": "
                           \o generateTypeForPlain(v.fields[i])], ",")
         \o "})"

\* generateTypeFor: the case "string" returns only when validation.enum is
\* truthy (an empty array is), and falls through to "datetime" otherwise.
RECURSIVE generateTypeFor(_)
generateTypeFor(v) ==
  CASE v.type = "boolean" -> "ss.boolean()"
    [] v.type = "string" ->
         IF Has(v, "validation") /\ Has(v.validation, "enum")
           THEN "ss.enums(["
                \o JoinStrings([i \in DOMAIN v.validation.enum |->
                                  Stringify(v.validation.enum[i].value)
                                  \o " as const"], ",")
                \o "])"
           ELSE "ss.string()"
    [] v.type = "datetime" -> "ss.string()"
    [] v.type = "number" -> "ss.number()"
    [] v.type = "object" ->
         "ss.type({"
         \o JoinStrings([i \in DOMAIN v.fields |->
                           Stringify(v.fields[i].name) \o ": "
                           \o generateTypeFor(v.fields[i])], ",")
         \o "})"

\* The lines of the emitted module.
generateContentModelTypescriptCode(schemas) ==
  << "import * as ss from \"superstruct\";", "export const schemas = {" >>
  \o [i \in DOMAIN schemas |->
        Stringify(schemas[i].name) \o ": " \o generateTypeFor(schemas[i].json) \o ","]
  \o << "};" >>


IsThrown(x) == Has(x, "type") /\ x.type = "error"

\* The schemas of the runs.
EnumValue(value) == [label |-> value, value |-> value]
ColorSchema ==
  [name |-> "Color",
   json |-> [type |-> "string", kind |-> "dropdown",
             validation |-> [enum |-> <<EnumValue("red"), EnumValue("blue")>>]]]
TitleSchema ==
  [name |-> "Title", label |-> "Title",
   json |-> [type |-> "string", kind |-> "string",
             validation |-> [minLength |-> 1]]]
NoChoiceSchema ==
  [name |-> "NoChoice",
   json |-> [type |-> "string", kind |-> "radio", validation |-> [enum |-> <<>>]]]
WhenSchema == [name |-> "When", json |-> [type |-> "datetime", kind |-> "date"]]
RatingSchema == [name |-> "Rating", json |-> [type |-> "number", kind |-> "rating"]]
FlagSchema == [name |-> "Flag", json |-> [type |-> "boolean", kind |-> "toggle"]]
CardSchema ==
  [name |-> "Card",
   json |-> [type |-> "object",
             fields |-> << [name |-> "title", type |-> "string", kind |-> "textarea"],
                           [name |-> "tone", type |-> "string", kind |-> "radio",
                            validation |-> [enum |-> <<EnumValue("b"), EnumValue("a")>>]],
                           [name |-> "at", type |-> "datetime", kind |-> "datetime"],
                           [name |-> "n", type |-> "number", kind |-> "percentage"],
                           [name |-> "on", type |-> "boolean", kind |-> "checkbox"] >>]]
\* A kind that is no kind of a number.
BadSchema == [name |-> "Bad", json |-> [type |-> "number", kind |-> "toggle"]]

\* The files of --input: one or two of them.
InputFiles ==
  LET files == {Json(ColorSchema), Json(TitleSchema), Json(NoChoiceSchema),
                Json(WhenSchema), Json(RatingSchema), Json(FlagSchema),
                Json(CardSchema), Json(BadSchema), NotJson}
  IN  {<<f>> : f \in files}
      \cup {<<Json(CardSchema), f>> : f \in files}
      \cup {<<Json(ColorSchema), Json(TitleSchema), Json(FlagSchema)>>}

\* What the request of the built-in content models comes to: superagent
\* rejects when the request fails and when the status is no 2xx status,
\* and resolves with the parsed body otherwise.
RequestError == [kind |-> "error", reason |-> "request failed"]
ErrorStatus == [kind |-> "error", reason |-> "Internal Server Error"]
Response(body) == [kind |-> "response", body |-> body]
Item(data) == [json |-> data]

ApiOutcomes ==
  { RequestError, ErrorStatus,
    \* a body that is no array of answers
    Response(<<>>),
    \* an answer without a response array
    Response(<< [status |-> 404] >>),
    Response(<< [response |-> <<Item(Json(RatingSchema)), Item(Json(WhenSchema))>>] >>),
    Response(<< [response |-> <<Item(Json(RatingSchema)), Item(NotJson),
                                Item(Json(WhenSchema))>>] >>),
    Response(<< [response |-> <<Item(Json(BadSchema))>>] >>) }

\* Lines 316-320 inside the try: the schemas pushed before a throw stay.
RECURSIVE BuiltIns(_)
BuiltIns(items) ==
  IF items = <<>> THEN <<>>
  ELSE IF IsThrown(parseContentModelSchema(Head(items).json)) THEN <<>>
  ELSE <<parseContentModelSchema(Head(items).json)>> \o BuiltIns(Tail(items))

\* Lines 325-330: the first input that fails to parse ends the command.
RECURSIVE InputSchemas(_)
InputSchemas(files) ==
  IF files = <<>> THEN [status |-> "ok", schemas |-> <<>>]
  ELSE IF IsThrown(parseContentModelSchema(Head(files)))
    THEN [status |-> "thrown",
          reason |-> parseContentModelSchema(Head(files)).reason]
  ELSE IF InputSchemas(Tail(files)).status = "thrown"
    THEN InputSchemas(Tail(files))
  ELSE [status |-> "ok",
        schemas |-> <<parseContentModelSchema(Head(files))>>
                    \o InputSchemas(Tail(files)).schemas]

OutputPath == <<"out", "/", "models", ".ts">>
Stdout == <<"-">>

\* The run of contentModelTypescriptCodegen.
\*   run   api      what the request comes to
\*         input    the files of config.input
\*         output   config.output
\*         schemas  the schemas loaded so far
\*   out   the emitted module, and whether it went to the console
InitContent ==
  /\ pc = "start"
  /\ doc = <<>>
  /\ specs = <<>>
  /\ embedImports = FALSE
  /\ allowUnusedFragments = FALSE
  /\ imports = NoImports
  /\ rs = NoResolver
  /\ prev = NoResolver
  /\ out = NoOutput
  /\ err = ""
  /\ disk \in {<<>>, (OutputPath :> <<"// an earlier module">>)}
  /\ \E api \in ApiOutcomes, input \in InputFiles, output \in {OutputPath, Stdout} :
       run = [count |-> 1, api |-> api, input |-> input, output |-> output,
              schemas |-> <<>>]

\* Lines 309-313: the awaited request, before the try.
FetchBuiltIns ==
  /\ pc = "start"
  /\ IF run.api.kind = "error"
       THEN pc' = "failed" /\ err' = run.api.reason
       ELSE pc' = "fetched" /\ err' = err
  /\ UNCHANGED <<doc, specs, embedImports, allowUnusedFragments, imports, rs,
                 prev, out, disk, run>>

\* Lines 315-323: try { ... } catch {}; resp.body[0].response of a body
\* without it throws a TypeError inside the try.
ParseBuiltIns ==
  /\ pc = "fetched"
  /\ pc' = "builtins"
  /\ run' = [run EXCEPT !.schemas =
               IF run.api.body = <<>> \/ ~Has(run.api.body[1], "response")
                 THEN <<>>
                 ELSE BuiltIns(run.api.body[1].response)]
  /\ UNCHANGED <<doc, specs, embedImports, allowUnusedFragments, imports, rs,
                 prev, out, err, disk>>

\* Lines 325-330
LoadInputs ==
  /\ pc = "builtins"
  /\ \E loaded \in {InputSchemas(run.input)} :
       IF loaded.status = "thrown"
         THEN pc' = "failed" /\ err' = loaded.reason /\ run' = run
         ELSE /\ pc' = "loaded" /\ err' = err
              /\ run' = [run EXCEPT !.schemas = run.schemas \o loaded.schemas]
  /\ UNCHANGED <<doc, specs, embedImports, allowUnusedFragments, imports, rs,
                 prev, out, disk>>

\* Lines 331-337
EmitContentModel ==
  /\ pc = "loaded"
  /\ pc' = "done"
  /\ \E r \in {generateContentModelTypescriptCode(run.schemas)} :
       /\ out' = [status |-> "ok", text |-> r, console |-> run.output = Stdout]
       /\ disk' = IF run.output = Stdout THEN disk
                  ELSE writeFileIfChanged(disk, run.output, r)
  /\ UNCHANGED <<doc, specs, embedImports, allowUnusedFragments, imports, rs,
                 prev, err, run>>

NextContent == FetchBuiltIns \/ ParseBuiltIns \/ LoadInputs \/ EmitContentModel

SpecContent == InitContent /\ [][NextContent]_vars

(***************************************************************************)
(* extractImportSpecs: the two regular expressions run over the raw text   *)
(* of a .graphql file. The text is the sequence of its tokens, white space *)
(* between them.                                                           *)
(***************************************************************************)
\* A token: its kind, its text, and for a string literal the path between
\* the quotes.
Tok(kind, v) == [kind |-> kind, v |-> v, path |-> <<>>]
End == Tok("end", "")

At(text, i) == IF i \in DOMAIN text THEN text[i] ELSE End

\* [a-zA-Z0-9_]+ : a word, the words `import` and `from` among them.
IsIdent(tok) == tok.kind \in {"ident", "import", "from"}

NoMatch == [found |-> FALSE]

\* /import\s+\*\s+from\s+"([^"]+)"/ matched at position i.
MatchAllAt(text, i) ==
  IF /\ At(text, i).kind = "import" /\ At(text, i + 1).kind = "star"
     /\ At(text, i + 2).kind = "from" /\ At(text, i + 3).kind = "string"
    THEN [found |-> TRUE, next |-> i + 4, spec |-> ImportAll(At(text, i + 3).path)]
    ELSE NoMatch

\* ((?:\s*,\s*[a-zA-Z0-9_]+)*) from position i: where it ends, and the
\* names of _.compact(_.map(_.split(m[2], ","), _.trim)).
RECURSIVE MoreNames(_, _, _)
MoreNames(text, i, names) ==
  IF At(text, i).kind = "comma" /\ IsIdent(At(text, i + 1))
    THEN MoreNames(text, i + 2, Append(names, At(text, i + 1).v))
    ELSE [next |-> i, names |-> names]

\* The end of a list of names: \s*\}\s+from\s+"([^"]+)"
MatchSomeEnd(text, list) ==
  IF /\ At(text, list.next).kind = "rbrace"
     /\ At(text, list.next + 1).kind = "from"
     /\ At(text, list.next + 2).kind = "string"
    THEN [found |-> TRUE, next |-> list.next + 3,
          spec |-> ImportSome(At(text, list.next + 2).path, list.names)]
    ELSE NoMatch

\* /import\s+\{\s*([a-zA-Z0-9_]+)((?:\s*,\s*[a-zA-Z0-9_]+)*)\s*\}\s+from\s+"([^"]+)"/
\* matched at position i.
MatchSomeAt(text, i) ==
  IF /\ At(text, i).kind = "import" /\ At(text, i + 1).kind = "lbrace"
     /\ IsIdent(At(text, i + 2))
    THEN MatchSomeEnd(text, MoreNames(text, i + 3, <<At(text, i + 2).v>>))
    ELSE NoMatch

\* while (true) { m = regexp.exec(data); if (!m) break; out.push(...) } with
\* the regexp for `import *` (all) or for `import { }`: the leftmost match
\* from lastIndex on, then on from its end.
RECURSIVE ExecLoop(_, _, _)
ExecLoop(text, i, all) ==
  IF i > Len(text) THEN <<>>
  ELSE IF all /\ MatchAllAt(text, i).found
    THEN <<MatchAllAt(text, i).spec>> \o ExecLoop(text, MatchAllAt(text, i).next, all)
  ELSE IF ~all /\ MatchSomeAt(text, i).found
    THEN <<MatchSomeAt(text, i).spec>> \o ExecLoop(text, MatchSomeAt(text, i).next, all)
  ELSE ExecLoop(text, i + 1, all)

\* The two loops the other way round.
extractListsFirst(data) == ExecLoop(data, 1, FALSE) \o ExecLoop(data, 1, TRUE)

extractImportSpecs(data) == ExecLoop(data, 1, TRUE) \o ExecLoop(data, 1, FALSE)

\* The pieces of the texts of the files.
Word(v) == Tok("ident", v)
Str(path) == [kind |-> "string", v |-> "", path |-> path]
Import == Tok("import", "import")
From == Tok("from", "from")
Comma == Tok("comma", ",")

TextPieces ==
  { \* import * from "@lib"
    <<Import, Tok("star", "*"), From, Str(LibPath)>>,
    \* import * from "other"
    <<Import, Tok("star", "*"), From, Str(OtherPath)>>,
    \* import { G } from "@lib"
    <<Import, Tok("lbrace", "{"), Word("G"), Tok("rbrace", "}"), From, Str(LibPath)>>,
    \* import { K, F } from "C:/y"
    <<Import, Tok("lbrace", "{"), Word("K"), Comma, Word("F"), Tok("rbrace", "}"),
      From, Str(ColonPath)>>,
    \* import { from } from "other"
    <<Import, Tok("lbrace", "{"), From, Tok("rbrace", "}"), From, Str(OtherPath)>>,
    \* import { } from "other"
    <<Import, Tok("lbrace", "{"), Tok("rbrace", "}"), From, Str(OtherPath)>>,
    \* import { J, } from "other"
    <<Import, Tok("lbrace", "{"), Word("J"), Comma, Tok("rbrace", "}"), From,
      Str(OtherPath)>>,
    \* import * from other
    <<Import, Tok("star", "*"), From, Word("other")>>,
    \* import
    <<Import>>,
    \* fragment A on Item { id }
    <<Word("fragment"), Word("A"), Word("on"), Word("Item"), Tok("lbrace", "{"),
      Word("id"), Tok("rbrace", "}")>> }

\* The most pieces of a text.
MaxPieces == 3

RECURSIVE Flatten(_)
Flatten(pieces) ==
  IF pieces = <<>> THEN <<>> ELSE Head(pieces) \o Flatten(Tail(pieces))

Texts == {Flatten(ps) : ps \in UNION {[1..n -> TextPieces] : n \in 0..MaxPieces}}

\* The loop over the files of the run for one file (part_004:232-237):
\*   run.text  src.body
\*   specs     allImports
InitLexer ==
  /\ pc = "source"
  /\ doc = <<>>
  /\ specs = <<>>
  /\ embedImports = FALSE
  /\ allowUnusedFragments = FALSE
  /\ imports = NoImports
  /\ rs = NoResolver
  /\ prev = NoResolver
  /\ out = NoOutput
  /\ err = ""
  /\ disk = NoDisk
  /\ \E text \in Texts : run = [count |-> 0, text |-> text]

\* allImports.push(...extractImportSpecs(src.body))
ExtractImports ==
  /\ pc = "source"
  /\ pc' = "read"
  /\ specs' = specs \o extractImportSpecs(run.text)
  /\ UNCHANGED <<doc, embedImports, allowUnusedFragments, imports, rs, prev,
                 out, err, disk, run>>

NextLexer == ExtractImports

SpecLexer == InitLexer /\ [][NextLexer]_vars

(***************************************************************************)
(* The additional pass over the used named types (graphql.ts:787-797),     *)
(* call by call: walkType(t, undefined, cb) on the stack of the engine.    *)
(*   run.schema  the named types of the schema                             *)
(*   run.names   the keys of usedNamedTypes the loop has still to take     *)
(*   run.stack   the calls of walkType that have not returned: the type    *)
(*               of each and the types it has still to walk into           *)
(*   run.used    usedNamedTypes                                            *)
(***************************************************************************)
InputType(fields) == [kind |-> "input", fields |-> fields]
EnumType == [kind |-> "enum", fields |-> <<>>]

\* The schemas of the walks.
WalkSchemas ==
  { \* input Filter { color: Color, range: Range! }  input Range { unit: Unit! }
    [ Color |-> EnumType, Unit |-> EnumType,
      Filter |-> InputType(<<TypeRef("Color"), NonNullOf(TypeRef("Range"))>>),
      Range |-> InputType(<<NonNullOf(TypeRef("Unit"))>>) ],
    \* input Filter { color: Color, and: [Filter!] }
    [ Color |-> EnumType, Unit |-> EnumType,
      Filter |-> InputType(<<TypeRef("Color"),
                             ListOf(NonNullOf(TypeRef("Filter")))>>),
      Range |-> InputType(<<NonNullOf(TypeRef("Unit"))>>) ],
    \* input Filter { range: Range }  input Range { unit: Unit, within: Filter }
    [ Color |-> EnumType, Unit |-> EnumType,
      Filter |-> InputType(<<TypeRef("Range")>>),
      Range |-> InputType(<<TypeRef("Unit"), TypeRef("Filter")>>) ] }

\* The names a document can have put into usedNamedTypes: enums selected,
\* types of variables; `Nope` is a variable type the schema does not have.
WalkNames == <<"Color", "Filter", "Range", "Nope">>

\* The most names in usedNamedTypes at the start of the pass.
MaxWalkNames == 3

\* The most calls the stack of the engine holds.
MaxStack == 8

StackOverflow == "Maximum call stack size exceeded"

\* The types a call of walkType(t, undefined, cb) walks into, in order.
WalkInto(schema, t) ==
  IF t.kind \in {"NonNull", "List"} THEN <<t.ofType>>
  ELSE IF schema[t.name].kind = "input" THEN schema[t.name].fields
  ELSE <<>>

\* cb(t) of the additional pass
MarkUsed(schema, used, t) ==
  IF t.kind = "Named" /\ schema[t.name].kind \in {"input", "enum"}
    THEN used \cup {t.name} ELSE used

\* The entry of a call: cb(t), and the calls it has to make.
Call(r, t) ==
  [r EXCEPT !.stack = Append(@, [t |-> t, into |-> WalkInto(r.schema, t)]),
            !.used = MarkUsed(r.schema, @, t)]

InitWalk ==
  /\ pc = "closure"
  /\ doc = <<>>
  /\ specs = <<>>
  /\ embedImports = FALSE
  /\ allowUnusedFragments = FALSE
  /\ imports = NoImports
  /\ rs = NoResolver
  /\ prev = NoResolver
  /\ out = NoOutput
  /\ err = ""
  /\ disk = NoDisk
  /\ \E schema \in WalkSchemas,
        names \in {<<>>} \cup Orders(WalkNames, MaxWalkNames) :
       run = [count |-> 0, schema |-> schema, names |-> names,
              stack |-> <<>>, used |-> Range(names)]

\* for (const name of _.keys(usedNamedTypes)): the next name, and the
\* call of walkType when the schema has the type.
WalkName ==
  /\ pc = "closure"
  /\ run.stack = <<>>
  /\ run.names # <<>>
  /\ LET r == [run EXCEPT !.names = Tail(@)] IN
     run' = IF Head(run.names) \in DOMAIN run.schema
              THEN Call(r, TypeRef(Head(run.names))) ELSE r
  /\ UNCHANGED <<pc, doc, specs, embedImports, allowUnusedFragments, imports,
                 rs, prev, out, err, disk>>

\* The call on top of the stack calls walkType on the next type it walks
\* into; a call the stack has no room for throws.
WalkCall ==
  /\ pc = "closure"
  /\ run.stack # <<>>
  /\ run.stack[Len(run.stack)].into # <<>>
  /\ IF Len(run.stack) >= MaxStack
       THEN /\ pc' = "failed"
            /\ err' = StackOverflow
            /\ run' = [run EXCEPT !.stack = <<>>]
       ELSE /\ run' = Call([run EXCEPT !.stack[Len(run.stack)].into = Tail(@)],
                           Head(run.stack[Len(run.stack)].into))
            /\ UNCHANGED <<pc, err>>
  /\ UNCHANGED <<doc, specs, embedImports, allowUnusedFragments, imports, rs,
                 prev, out, disk>>

\* The call on top of the stack has nothing left to walk into and returns.
WalkReturn ==
  /\ pc = "closure"
  /\ run.stack # <<>>
  /\ run.stack[Len(run.stack)].into = <<>>
  /\ run' = [run EXCEPT !.stack = SubSeq(@, 1, Len(@) - 1)]
  /\ UNCHANGED <<pc, doc, specs, embedImports, allowUnusedFragments, imports,
                 rs, prev, out, err, disk>>

\* The loop over the names has ended: resolveTypes returns.
WalkEnd ==
  /\ pc = "closure"
  /\ run.stack = <<>>
  /\ run.names = <<>>
  /\ pc' = "returned"
  /\ UNCHANGED <<doc, specs, embedImports, allowUnusedFragments, imports, rs,
                 prev, out, err, disk, run>>

NextWalk == WalkName \/ WalkCall \/ WalkReturn \/ WalkEnd

SpecWalk == InitWalk /\ [][NextWalk]_vars

(***************************************************************************)
(* addFragmentDepsRecursive call by call (graphql.ts:584-618).             *)
(*   run.fragsMap  the fragsMap of the first call                          *)
(*   run.imports   the import map                                          *)
(*   run.stack     the calls that have not returned: the names each has    *)
(*                 still to take from `frags`, its fragsMap and its path   *)
(*   run.deps      the keys set in deps                                    *)
(*   run.expanded  the keys in the order in which they were set, each      *)
(*                 with a call on the dependencies of its fragment         *)
(***************************************************************************)
DepNames == {"F", "G", "H"}

\* The values of a fragmentDeps map: _.keys(deps).sort()
DepLists == {SortNames(S) : S \in SUBSET DepNames}

\* The fragmentDeps maps of the local files, or of the context of an
\* import (lines 244-256 pass imp.context.fragmentDeps): the maps that
\* define F, G or both, with any dependencies, those that go in a circle
\* among them.
DepMaps ==
  UNION {[S -> DepLists] : S \in SUBSET {"F", "G"}}

\* The fragmentDeps of the contexts of the imports: fragments that depend
\* on each other in a circle (each a single spread), on themselves, or on
\* a fragment with the name of a local one.
ContextDeps ==
  { [G |-> <<"H">>, H |-> <<"G">>],
    [H |-> <<"H">>],
    [G |-> <<"F">>, F |-> <<>>, H |-> <<"F", "G">>] }

\* The import maps: fragments imported from one directory, each with the
\* context of the directory; the empty map (lines 244-256).
ImportMaps ==
  {<<>>} \cup
  UNION {{[name \in S |-> [path |-> LibPath, context |-> [fragmentDeps |-> ctx]]] :
            S \in (SUBSET (DOMAIN ctx \cap {"G", "H"})) \ {{}}} : ctx \in ContextDeps}

\* A loop that never finds a key set.
NeverContinue(deps, key) == FALSE

\* addKeyOrContinue(key) returns true: the key is set already.
AddKeyOrContinue(deps, key) == key \in deps

\* A call of addFragmentDepsRecursive(deps, frags, fragsMap, imports, path)
DepsCall(frags, fragsMap, path) ==
  [frags |-> frags, fragsMap |-> fragsMap, path |-> path]

\* The key and the call of one name of the loop, by the three branches.
DepsBranch(frame, imps, frag) ==
  IF Has(frame.fragsMap, frag)
    THEN [key |-> DepKey(frame.path, frag),
          call |-> DepsCall(frame.fragsMap[frag], frame.fragsMap, frame.path)]
  ELSE IF Has(imps, frag)
    THEN [key |-> DepKey(imps[frag].path, frag),
          call |-> DepsCall(IF Has(imps[frag].context.fragmentDeps, frag)
                              THEN imps[frag].context.fragmentDeps[frag]
                              ELSE <<>>,
                            imps[frag].context.fragmentDeps, imps[frag].path)]
  ELSE [key |-> DepKey(frame.path, frag),
        call |-> DepsCall(<<>>, frame.fragsMap, frame.path)]

InitDeps ==
  /\ pc = "deps"
  /\ doc = <<>>
  /\ specs = <<>>
  /\ embedImports = FALSE
  /\ allowUnusedFragments = FALSE
  /\ imports = NoImports
  /\ rs = NoResolver
  /\ prev = NoResolver
  /\ out = NoOutput
  /\ err = ""
  /\ disk = NoDisk
  /\ \E fragsMap \in DepMaps, imps \in ImportMaps, frag \in DepNames :
       run = [count |-> 0, fragsMap |-> fragsMap, imports |-> imps,
              start |-> frag,
              stack |-> <<DepsCall(<<frag>>, fragsMap, LocalPath)>>,
              deps |-> {}, expanded |-> <<>>]

\* One turn of `for (const frag of frags)` in the call on top of the stack.
DepsTurn ==
  /\ pc = "deps"
  /\ run.stack # <<>>
  /\ run.stack[Len(run.stack)].frags # <<>>
  /\ LET top == Len(run.stack)
         frame == run.stack[top]
         b == DepsBranch(frame, run.imports, Head(frame.frags))
         r == [run EXCEPT !.stack[top].frags = Tail(@)]
     IN  run' = IF AddKeyOrContinue(run.deps, b.key) THEN r
                ELSE [r EXCEPT !.deps = @ \cup {b.key},
                               !.expanded = Append(@, b.key),
                               !.stack = Append(@, b.call)]
  /\ UNCHANGED <<pc, doc, specs, embedImports, allowUnusedFragments, imports,
                 rs, prev, out, err, disk>>

\* The loop of the call on top of the stack has ended: the call returns.
DepsReturn ==
  /\ pc = "deps"
  /\ run.stack # <<>>
  /\ run.stack[Len(run.stack)].frags = <<>>
  /\ run' = [run EXCEPT !.stack = SubSeq(@, 1, Len(@) - 1)]
  /\ pc' = IF Len(run.stack) = 1 THEN "returned" ELSE pc
  /\ UNCHANGED <<doc, specs, embedImports, allowUnusedFragments, imports, rs,
                 prev, out, err, disk>>

NextDeps == DepsTurn \/ DepsReturn

SpecDeps == InitDeps /\ [][NextDeps]_vars

(***************************************************************************)
(* Properties of the generated operation files.                            *)
(***************************************************************************)
\* A fragment as the emitter identifies it: the path it comes from (".."
\* for a fragment of the run's own tables) and its name.
Origin(path, name) == [path |-> path, name |-> name]

\* The context an import path was resolved to.
ContextAt(path) ==
  (CHOOSE imp \in Range(imports.loadedImports) : imp.path = path).context

\* The definition of a fragment, found in the tables of its origin.
HasNode(o) ==
  IF o.path = LocalPath THEN Has(rs.fragments, o.name)
  ELSE /\ \E imp \in Range(imports.loadedImports) : imp.path = o.path
       /\ Has(ContextAt(o.path).fragments, o.name)

NodeOf(o) ==
  IF o.path = LocalPath THEN rs.fragments[o.name].node
  ELSE ContextAt(o.path).fragments[o.name].node

\* The fragment a name spread inside `path` refers to: one of that origin,
\* else an import of the run.
Home(path, name) ==
  IF HasNode(Origin(path, name)) THEN Origin(path, name)
  ELSE IF Has(imports.loadedImportsMap, name)
    THEN Origin(imports.loadedImportsMap[name].path, name)
  ELSE Origin(path, name)

RECURSIVE SpreadReach(_)
SpreadReach(S) ==
  LET more == UNION {{Home(o.path, m) : m \in AllSpreads(NodeOf(o).selectionSet)} :
                       o \in {x \in S : HasNode(x)}}
  IN  IF more \subseteq S THEN S ELSE SpreadReach(S \cup more)

\* The transitive closure of the fragments an operation spreads.
ClosureOfOperation(node) ==
  SpreadReach({Home(LocalPath, m) : m \in AllSpreads(node.selectionSet)})

\* C1: the fragments an operation file imports and concatenates are
\* exactly the names of the transitive closure of the fragments the
\* operation spreads (through local fragments and through the context of
\* each imported fragment).
C1_ImportsEqualClosure ==
  (pc = "generated") =>
    \A i \in DOMAIN out.operationFiles :
      LET file == out.operationFiles[i]
          closure == {o.name :
                        o \in ClosureOfOperation(rs.operations[file.name].node)}
      IN  /\ Range(file.depNames) = closure
          /\ {l.name : l \in Range(file.depImports)} = closure

(***************************************************************************)
(* Properties of the converted types.                                      *)
(***************************************************************************)
\* The member of an intersection that is the local object.
HasObjMember(ts) == \E m \in Range(ts.types) : m.type = "object"
ObjMember(ts) == CHOOSE m \in Range(ts.types) : m.type = "object"

\* The object that holds the fields of a converted selection set.
HasFieldsOf(ts) ==
  \/ ts.type = "object"
  \/ ts.type = "intersection" /\ HasObjMember(ts)
FieldsOf(ts) == IF ts.type = "object" THEN ts.fields ELSE ObjMember(ts).fields

FieldSelections(ss) == {i \in DOMAIN ss : ss[i].kind = "Field"}

Unwrapped(gt) == IF isNonNullType(gt) THEN gt.ofType ELSE gt
Expected(gt) == IF isNonNullType(gt) THEN "false" ELSE "true"

\* The emitted type ts of a position of GraphQL type gt selected with ss
\* is nullable exactly when gt is not a NonNull, and so are the positions
\* below it. Positions of interface type are of none of the kinds of C2.
RECURSIVE NullabilityOK(_, _, _)
RECURSIVE FieldsNullabilityOK(_, _, _)
NullabilityOK(gt, ss, ts) ==
  LET inner == Unwrapped(gt) IN
  IF isListType(inner)
    THEN /\ ts.type = "array"
         /\ ts.nullable = Expected(gt)
         /\ NullabilityOK(inner.ofType, ss, ts.element)
  ELSE IF isScalarType(inner) \/ isEnumType(inner) \/ isInputObjectType(inner)
    THEN ts.type = "named" /\ ts.nullable = Expected(gt)
  ELSE IF isObjectType(inner)
    THEN ts.nullable = Expected(gt) /\ FieldsNullabilityOK(inner, ss, ts)
  ELSE TRUE

FieldsNullabilityOK(t, ss, ts) ==
  HasFieldsOf(ts) =>
    \A i \in FieldSelections(ss) :
      /\ Has(FieldsOf(ts), aliasOrName(ss[i]))
      /\ NullabilityOK(getFields(t)[ss[i].name], ss[i].selectionSet,
                       FieldsOf(ts)[aliasOrName(ss[i])])

\* The same for the type node of a variable definition.
RECURSIVE NodeNullabilityOK(_, _)
NodeNullabilityOK(tn, ts) ==
  LET expected == IF tn.kind = "NonNullType" THEN "false" ELSE "true"
      inner == IF tn.kind = "NonNullType" THEN tn.type ELSE tn
  IN  /\ ts.nullable = expected
      /\ inner.kind = "ListType" =>
           ts.type = "array" /\ NodeNullabilityOK(inner.type, ts.element)

Position(ss, ts, nullable) == [ss |-> ss, ts |-> ts, nullable |-> nullable]

RECURSIVE ObjectPositions(_, _, _, _)
ObjectPositions(gt, ss, ts, top) ==
  LET inner == Unwrapped(gt) IN
  IF isListType(inner)
    THEN IF ts.type = "array"
           THEN ObjectPositions(inner.ofType, ss, ts.element, FALSE)
           ELSE {}
  ELSE IF isObjectType(inner)
    THEN {Position(ss, ts, IF top THEN "false" ELSE Expected(gt))}
         \cup (IF HasFieldsOf(ts)
                 THEN UNION {ObjectPositions(getFields(inner)[ss[i].name],
                                             ss[i].selectionSet,
                                             FieldsOf(ts)[aliasOrName(ss[i])],
                                             FALSE) :
                               i \in {j \in FieldSelections(ss) :
                                        Has(FieldsOf(ts), aliasOrName(ss[j]))}}
                 ELSE {})
  ELSE {}

\* Every converted selection set of the tables of resolveTypes.
AllPositions ==
  UNION ({ObjectPositions(TypeRef(RootType(rs.operations[n].node.operation)),
                          rs.operations[n].node.selectionSet,
                          rs.operations[n].operation, TRUE) :
            n \in DOMAIN rs.operations}
         \cup
         {ObjectPositions(TypeRef(rs.fragments[n].node.typeCondition),
                          rs.fragments[n].node.selectionSet,
                          rs.fragments[n].type, TRUE) :
            n \in DOMAIN rs.fragments})

Intersections == {p \in AllPositions : p.ts.type = "intersection"}

\* The `<Name>Fragment` names of the spreads of a selection set, in the
\* order of the selection set, and those of the Named members of an
\* intersection, in the order of the members.
SpreadSels(ss) == SelectSeq(ss, LAMBDA sel : sel.kind = "FragmentSpread")
SpreadNames(ss) ==
  [i \in DOMAIN SpreadSels(ss) |-> SpreadSels(ss)[i].name \o "Fragment"]
NamedMembers(ts) == SelectSeq(ts.types, LAMBDA m : m.type = "named")
MemberNames(ts) == [i \in DOMAIN NamedMembers(ts) |-> NamedMembers(ts)[i].name]

Reverse(q) == [i \in DOMAIN q |-> q[Len(q) + 1 - i]]

LocalObjectLast(ts) == ts.types[Len(ts.types)].type = "object"

\* C3 as stated: the members of an intersection are the spread fragments
\* in the order of their spreads (first spread first), the local object
\* last.
C3_FirstSpreadFirst ==
  \A p \in Intersections :
    /\ MemberNames(p.ts) = SpreadNames(p.ss)
    /\ LocalObjectLast(p.ts)

\* C3: the members of an intersection are the spread fragments in the
\* reverse order of their spreads (the last spread first), the local
\* object last.
C3_LastSpreadFirst ==
  \A p \in Intersections :
    /\ MemberNames(p.ts) = Reverse(SpreadNames(p.ss))
    /\ Len(p.ts.types) = Len(SpreadNames(p.ss)) + 1
    /\ LocalObjectLast(p.ts)

\* A selection set with two spreads of different fragments was converted.
C3_Witness ==
  \E p \in Intersections :
    /\ Len(SpreadNames(p.ss)) = 2
    /\ SpreadNames(p.ss)[1] # SpreadNames(p.ss)[2]

\* The name a scalar is mapped to.
HostScalar(name) ==
  CASE name \in {"String", "ID"} -> "string"
    [] name \in {"Int", "Float"} -> "number"
    [] name = "Boolean" -> "boolean"
    [] OTHER -> "ArbitraryObjectType"

\* The scalar positions below a converted position carry the mapped name.
RECURSIVE ScalarsOK(_, _, _)
ScalarsOK(gt, ss, ts) ==
  LET inner == Unwrapped(gt) IN
  IF isListType(inner)
    THEN ts.type = "array" => ScalarsOK(inner.ofType, ss, ts.element)
  ELSE IF isScalarType(inner)
    THEN ts.type = "named" /\ ts.name = HostScalar(inner.name)
  ELSE IF isObjectType(inner) /\ HasFieldsOf(ts)
    THEN \A i \in FieldSelections(ss) :
           Has(FieldsOf(ts), aliasOrName(ss[i])) =>
             ScalarsOK(getFields(inner)[ss[i].name], ss[i].selectionSet,
                       FieldsOf(ts)[aliasOrName(ss[i])])
  ELSE TRUE

\* The named type under the wrappers of an emitted type.
RECURSIVE ElementOf(_)
ElementOf(ts) == IF ts.type = "array" THEN ElementOf(ts.element) ELSE ts

RECURSIVE NamedTypeOf(_)
NamedTypeOf(tn) == IF tn.kind = "NamedType" THEN tn.name ELSE NamedTypeOf(tn.type)

VariableScalarsOK(op) ==
  \A vd \in Range(op.node.variableDefinitions) :
    (HasType(NamedTypeOf(vd.type)) /\ isScalarType(TypeRef(NamedTypeOf(vd.type))))
      => ElementOf(op.variables.fields[vd.name]).name
           = HostScalar(NamedTypeOf(vd.type))

\* C4: every scalar position that reaches the emitted types (selected
\* result fields, input-object fields, variable types) is mapped
\* String->string, Int->number, Float->number, Boolean->boolean,
\* ID->string, any other scalar->ArbitraryObjectType.
C4_ScalarMapping ==
  /\ \A n \in DOMAIN rs.operations :
       LET op == rs.operations[n] IN
       /\ ScalarsOK(TypeRef(RootType(op.node.operation)), op.node.selectionSet,
                    op.operation)
       /\ VariableScalarsOK(op)
  /\ \A n \in DOMAIN rs.fragments :
       ScalarsOK(TypeRef(rs.fragments[n].node.typeCondition),
                 rs.fragments[n].node.selectionSet, rs.fragments[n].type)
  /\ (pc = "generated") =>
       \A d \in Range(out.named) :
         d.kind = "input" =>
           \A f \in DOMAIN getFields(TypeRef(d.name)) :
             ScalarsOK(getFields(TypeRef(d.name))[f], <<>>, d.type.fields[f])


(***************************************************************************)
(* Properties of resolveTypes.                                             *)
(***************************************************************************)
Finished(r) == r.status \in {"returned", "thrown"}

\* The fragment names a spread of the document can refer to: those the
\* document defines and those of the import map (in embed mode, of the
\* tables seeded from the imports).
KnownFragments ==
  {d.name : d \in {x \in Range(doc) : x.kind = "FragmentDefinition"}}
  \cup DOMAIN imports.loadedImportsMap
  \cup UNION {DOMAIN raw.fragments : raw \in Range(imports.rawImportData)}

UnknownSpreads(ss) == AllSpreads(ss) \ KnownFragments

\* A spread of a fragment of `bad` stands next to other selections in a
\* selection set that is converted: the selection set of a position of
\* object type (below any NonNull and List), reached through fields of
\* object types. A position of another type is converted without a look
\* at its selection set.
RECURSIVE BadAmongSeveral(_, _, _)
BadAmongSeveral(t, ss, bad) ==
  IF isNonNullType(t) \/ isListType(t) THEN BadAmongSeveral(t.ofType, ss, bad)
  ELSE IF ~isObjectType(t) THEN FALSE
  ELSE
    \/ /\ Len(ss) >= 2
       /\ \E i \in DOMAIN ss : ss[i].kind = "FragmentSpread" /\ ss[i].name \in bad
    \/ \E i \in FieldSelections(ss) :
         /\ Has(getFields(t), ss[i].name)
         /\ BadAmongSeveral(getFields(t)[ss[i].name], ss[i].selectionSet, bad)

\* The type a definition is converted against, when it has one.
HasDefinitionType(d) ==
  IF d.kind = "OperationDefinition" THEN RootType(d.operation) # "none"
  ELSE HasType(d.typeCondition)

DefinitionType(d) ==
  TypeRef(IF d.kind = "OperationDefinition" THEN RootType(d.operation)
          ELSE d.typeCondition)

\* A spread of an unknown fragment stands next to other selections in
\* some converted selection set of the definition.
UnknownAmongSeveral(d) ==
  /\ HasDefinitionType(d)
  /\ BadAmongSeveral(DefinitionType(d), d.selectionSet,
                     AllSpreads(d.selectionSet) \ KnownFragments)

\* A definition whose selection set resolveTypes converts: an operation,
\* or a fragment on a type of the schema.
Converted(d) ==
  d.kind = "OperationDefinition" \/ HasType(d.typeCondition)

Unresolved(r) == {i \in DOMAIN r.defs : ~r.resolved[i]}

\* The loop over the definitions has ended without progress.
StuckAtEndOfPass ==
  /\ rs.status = "pass"
  /\ Pending(rs) = {}
  /\ Unresolved(rs) # {}
  /\ Cardinality(Unresolved(rs)) = rs.before

\* C6: when a pass ends with as many unresolved definitions as it began
\* with (and not zero), resolveTypes throws an error holding one recorded
\* error, with its location, for every definition still unresolved; and it
\* returns a context only when every definition is marked resolved.
C6_FixpointOutcome ==
  /\ [](/\ (rs.status = "thrown" /\ rs.message = "failed to resolve types")
             => /\ \A i \in Unresolved(rs) :
                     \E e \in Range(rs.errors) : e.loc = i
                /\ Len(rs.errors) = Cardinality(Unresolved(rs))
                /\ Unresolved(rs) # {}
        /\ rs.status = "returned" => Unresolved(rs) = {})
  /\ [][StuckAtEndOfPass
          => /\ rs'.status = "thrown"
             /\ rs'.message = "failed to resolve types"
             /\ rs'.errors = rs.errors
             /\ rs'.resolved = rs.resolved]_vars

\* resolveTypes has thrown after a pass that made progress and a pass that
\* made none.
C6_Witness ==
  /\ rs.status = "thrown"
  /\ rs.message = "failed to resolve types"
  /\ rs.passes >= 2
  /\ rs.errors # <<>>
  /\ \E i \in DOMAIN rs.defs : rs.resolved[i]

\* The definitions that spread, next to other selections, the fragment
\* `name`.
RECURSIVE SpreadsAmongSeveral(_, _)
SpreadsAmongSeveral(ss, name) ==
  \/ /\ Len(ss) >= 2
     /\ \E i \in DOMAIN ss : ss[i].kind = "FragmentSpread" /\ ss[i].name = name
  \/ \E i \in FieldSelections(ss) : SpreadsAmongSeveral(ss[i].selectionSet, name)

ForwardSpread(r, i, j) ==
  /\ i < j
  /\ r.defs[j].kind = "FragmentDefinition"
  /\ Converted(r.defs[i])
  /\ SpreadsAmongSeveral(r.defs[i].selectionSet, r.defs[j].name)

\* C7: two documents with the same definitions in different orders both
\* fail or both succeed with equal used-named-types, fragments,
\* fragment-deps and operations; a definition that spreads, next to other
\* selections, a fragment defined later is resolved in a later pass.
C7_OrderIndependent ==
  /\ (pc = "second" /\ Finished(rs))
       => /\ rs.status = prev.status
          /\ rs.status = "returned" => ContextOf(rs) = ContextOf(prev)
  /\ \A r \in {rs, prev} :
       r.status = "returned" =>
         \A i, j \in DOMAIN r.defs :
           ForwardSpread(r, i, j) =>
             r.resolvedIn[i] >= 2 /\ r.resolvedIn[i] > r.resolvedIn[j]

\* Both calls returned, on different orders, the first after more passes
\* than the second or the second after more passes than the first.
C7_Witness ==
  /\ pc = "second"
  /\ rs.status = "returned"
  /\ prev.status = "returned"
  /\ rs.defs # prev.defs
  /\ rs.passes # prev.passes
  /\ \E i, j \in DOMAIN rs.defs : ForwardSpread(rs, i, j)


(***************************************************************************)
(* Properties of loadImports.                                              *)
(***************************************************************************)
DirOf(from) == ApplyIncludes(from, Includes)

\* The directory of an import path can be loaded: it has .graphql files,
\* none of them with imports, and its definitions resolve.
Loadable(from) ==
  /\ DirOf(from) \in DOMAIN FS
  /\ FS[DirOf(from)] # <<>>
  /\ \A file \in Range(FS[DirOf(from)]) : ~file.hasImports
  /\ resolveTypes(ConcatFiles(FS[DirOf(from)]), NoImports).status = "returned"

FragmentsIn(from) ==
  {d.name : d \in {x \in Range(ConcatFiles(FS[DirOf(from)])) :
                     x.kind = "FragmentDefinition"}}

\* The fragment names an import line asks for.
RequestedBy(sp) ==
  IF sp.what.kind = "all" THEN FragmentsIn(sp.from) ELSE Range(sp.what.names)

\* Every import line names a directory that loads and fragments it holds.
AllRequestsFound ==
  \A sp \in Range(specs) :
    Loadable(sp.from) /\ RequestedBy(sp) \subseteq FragmentsIn(sp.from)

\* The (name, path, path) triples of a name requested from two paths.
RequestedTwice ==
  {<<n, specs[i].from, specs[j].from>> :
     <<n, i, j>> \in {t \in NameSet \X (DOMAIN specs) \X (DOMAIN specs) :
                        /\ specs[t[2]].from # specs[t[3]].from
                        /\ t[1] \in RequestedBy(specs[t[2]])
                        /\ t[1] \in RequestedBy(specs[t[3]])}}

\* C8: loadImports throws an error naming the fragment and both paths
\* exactly when a fragment name is requested from two distinct paths; the
\* same name from the same path in several import lines is no error; when
\* it succeeds, loaded-imports holds one record per imported name, sorted
\* by name, the values of loaded-imports-map.
C8_DuplicateImportError ==
  (pc # "read" /\ out.status = "none" /\ AllRequestsFound) =>
    IF RequestedTwice # {}
      THEN /\ imports.status = "thrown"
           /\ imports.reason = "imported twice"
           /\ <<imports.name, imports.path, imports.secondPath>>
                \in RequestedTwice
      ELSE /\ imports.status = "ok"
           /\ DOMAIN imports.loadedImportsMap
                = UNION {RequestedBy(sp) : sp \in Range(specs)}
           /\ [i \in DOMAIN imports.loadedImports |->
                 imports.loadedImports[i].name]
                = SortNames(UNION {RequestedBy(sp) : sp \in Range(specs)})
           /\ \A imp \in Range(imports.loadedImports) :
                imports.loadedImportsMap[imp.name] = imp

(***************************************************************************)
(* Properties of intersections.                                            *)
(***************************************************************************)
\* A spread stands next to other selections.
SpreadAmongSeveral(ss) ==
  Len(ss) >= 2 /\ \E i \in DOMAIN ss : ss[i].kind = "FragmentSpread"

\* C9: an intersection is built exactly for a selection set that has a
\* spread next to other selections; its local object has no nullable flag,
\* its Named members have none, and its own flag is the nullability of
\* the position. `{ id ...B }` on a nullable field gives
\* Intersection[Named{BFragment}, Object{id}], which renders as
\* `(BFragment & { id: string; }) | null`.
C9_IntersectionNullability ==
  /\ \A p \in AllPositions :
       (p.ts.type = "intersection") <=> SpreadAmongSeveral(p.ss)
  /\ \A p \in Intersections :
       /\ \A i \in DOMAIN p.ts.types :
            /\ p.ts.types[i].nullable = "undefined"
            /\ p.ts.types[i].type = IF i = Len(p.ts.types) THEN "object"
                                    ELSE "named"
       /\ p.ts.nullable = p.nullable
       /\ (p.ss = <<Field("id", <<>>), Spread("B")>> /\ p.nullable = "true")
            => /\ p.ts = TSIntersection(
                           << TSNamed("BFragment", "undefined"),
                              TSObject([id |-> TSNamed("string", "false")],
                                       "undefined") >>, "true")
               /\ typeToString(p.ts, 0, FALSE)
                    = "(BFragment & {\n  id: string;\n}) | null"

\* `{ id ...B }` has been converted on a nullable field.
C9_Witness ==
  \E p \in Intersections :
    p.ss = <<Field("id", <<>>), Spread("B")>> /\ p.nullable = "true"

(***************************************************************************)
(* Properties of the named-type section.                                   *)
(***************************************************************************)
EnumsAndInputs ==
  {n \in DOMAIN SchemaTypes : SchemaTypes[n].kind \in {"enum", "input"}}

RECURSIVE NamedOf(_)
NamedOf(gt) == IF gt.kind = "Named" THEN gt.name ELSE NamedOf(gt.ofType)

\* The enums of the fields a selection set on `parent` selects.
RECURSIVE SelectedEnums(_, _)
SelectedEnums(parent, ss) ==
  UNION {LET sel == ss[i] IN
         IF SchemaTypes[parent].kind # "object"
              \/ ~Has(SchemaTypes[parent].fields, sel.name)
           THEN {}
           ELSE LET n == NamedOf(SchemaTypes[parent].fields[sel.name]) IN
                IF SchemaTypes[n].kind = "enum" THEN {n}
                ELSE SelectedEnums(n, sel.selectionSet) :
         i \in FieldSelections(ss)}

\* What a definition refers to directly.
DirectlyReferenced(d) ==
  IF d.kind = "OperationDefinition"
    THEN SelectedEnums(RootType(d.operation), d.selectionSet)
         \cup ({NamedTypeOf(vd.type) : vd \in Range(d.variableDefinitions)}
               \cap EnumsAndInputs)
    ELSE SelectedEnums(d.typeCondition, d.selectionSet)

\* The closure through the fields of input objects.
RECURSIVE InputChain(_)
InputChain(S) ==
  LET more == UNION {{NamedOf(SchemaTypes[n].fields[f]) :
                        f \in DOMAIN SchemaTypes[n].fields} :
                       n \in {x \in S : SchemaTypes[x].kind = "input"}}
             \cap EnumsAndInputs
  IN  IF more \subseteq S THEN S ELSE InputChain(S \cup more)

ReferencedLocally == InputChain(UNION {DirectlyReferenced(d) : d \in Range(doc)})

\* In embed mode, what the tables seeded from the imports hold.
SeededFromImports ==
  IF embedImports
    THEN InputChain(UNION {raw.usedNamedTypes : raw \in Range(imports.rawImportData)}
                    \cap EnumsAndInputs)
    ELSE {}

Declared == {d.name : d \in Range(out.named)}

\* C10 as stated: the named-type section declares exactly the enums and
\* input objects referenced by a local operation or fragment, directly or
\* through a chain of input-object fields.
C10_DeclaredAreReferenced ==
  (pc = "generated") => Declared = ReferencedLocally

\* C10: the named-type section declares exactly the enums and input
\* objects referenced by a local operation or fragment, directly or through
\* a chain of input-object fields, and, in embed mode, those of the
\* used-named-types of the imported directories with their chains.
C10_DeclaredAreReferencedOrSeeded ==
  (pc = "generated") =>
    /\ Declared = ReferencedLocally \cup SeededFromImports
    /\ \A i, j \in DOMAIN out.named :
         i < j => IndexOf(NameOrder, out.named[i].name)
                    < IndexOf(NameOrder, out.named[j].name)

\* A run declared an enum reached through two input objects and left an
\* unreferenced enum out.
C10_Witness ==
  /\ pc = "generated"
  /\ {"Filter", "Range", "Unit", "Color"} \subseteq Declared
  /\ "Unused" \notin Declared
  /\ "Unit" \notin UNION {DirectlyReferenced(d) : d \in Range(doc)}

(***************************************************************************)
(* Properties of the top-level types.                                      *)
(***************************************************************************)
\* A type that typeToString renders without ` | null`: its flag is false
\* or absent.
NonNullable(t) == t.nullable # "true" /\ NullSuffix(t) = ""

\* The top-level types of the context a call of resolveTypes returned.
TopLevelTypes(r) ==
  {r.operations[n].operation : n \in DOMAIN r.operations}
    \cup {r.operations[n].variables : n \in DOMAIN r.operations}
    \cup {r.fragments[n].type : n \in DOMAIN r.fragments}

\* The input-object declarations of the named-type section.
InputDeclarations == {d \in Range(out.named) : d.kind = "input"}

\* C11: in every context resolveTypes returns, each operation's result
\* type, each operation's variables object and each fragment's body type
\* is non-nullable, whatever its shape; so is every input-object
\* declaration of the types module.
C11_TopLevelNonNullable ==
  /\ (rs.status = "returned") => \A t \in TopLevelTypes(rs) : NonNullable(t)
  /\ (out.status = "ok") =>
       /\ \A d \in InputDeclarations : NonNullable(d.type)
       /\ \A i \in DOMAIN out.operations :
            /\ NonNullable(out.operations[i].operation)
            /\ NonNullable(out.operations[i].variables)
       /\ \A i \in DOMAIN out.fragments : NonNullable(out.fragments[i].type)

\* A run returned a context with an object, a single-spread alias and an
\* intersection at the top level, and declared an input object.
C11_Witness ==
  /\ pc = "generated"
  /\ InputDeclarations # {}
  /\ \A shape \in {"object", "named", "intersection"} :
       \E t \in TopLevelTypes(rs) : t.type = shape

(***************************************************************************)
(* Properties of the single-spread short cut.                              *)
(***************************************************************************)
SingleSpreads ==
  {p \in AllPositions : Len(p.ss) = 1 /\ p.ss[1].kind = "FragmentSpread"}

\* C12: a selection set on an object type that is exactly one fragment
\* spread converts to Named{<Name>Fragment} with the nullability of its
\* position, never to an intersection or an object, at field level as at
\* the top level of operations and fragments (where the position is
\* non-nullable).
C12_SingleSpreadIsNamed ==
  \A p \in SingleSpreads :
    /\ p.ts = TSNamed(p.ss[1].name \o "Fragment", p.nullable)
    /\ typeToString(p.ts, 0, FALSE)
         = p.ss[1].name \o "Fragment"
             \o (IF p.nullable = "true" THEN " | null" ELSE "")

\* Single spreads have been converted on a nullable field, on a
\* non-nullable field and at the top level of a fragment.
C12_Witness ==
  /\ \E p \in SingleSpreads : p.ss = <<Spread("C")>> /\ p.nullable = "true"
  /\ \E p \in SingleSpreads : p.ss = <<Spread("C")>> /\ p.nullable = "false"
  /\ \E n \in DOMAIN rs.fragments :
       /\ IsSingleSpread(rs.fragments[n].node.selectionSet)
       /\ rs.fragments[n].type.type = "named"

(***************************************************************************)
(* Properties of the names of the definitions.                             *)
(***************************************************************************)
\* Two definitions of the document share a name.
SharedName(d, kinds) ==
  \E i, j \in DOMAIN d :
    i # j /\ d[i].name = d[j].name /\ {d[i].kind, d[j].kind} = kinds

SharesAName(d) ==
  \/ SharedName(d, {"FragmentDefinition"})
  \/ SharedName(d, {"OperationDefinition"})
  \/ SharedName(d, {"FragmentDefinition", "OperationDefinition"})

\* The call has converted nothing and recorded nothing.
NothingConverted(r) ==
  /\ r.operations = <<>> /\ r.fragments = <<>> /\ r.fragmentDeps = <<>>
  /\ r.usedNamedTypes = {} /\ r.errors = <<>> /\ r.passes = 0
  /\ \A i \in DOMAIN r.resolved : ~r.resolved[i]

\* C13: whenever two named definitions of the document share a name (two
\* fragments, two operations, or a fragment and an operation), resolveTypes
\* throws before it converts any definition and returns no context.
C13_SharedNameThrows ==
  SharesAName(rs.defs) =>
    /\ rs.status = "thrown"
    /\ rs.message = "already exists"
    /\ NothingConverted(rs)

\* A second call threw on a document in which a fragment and an operation
\* share a name and two operations share a name.
C13_Witness ==
  /\ pc = "second"
  /\ SharedName(rs.defs, {"FragmentDefinition", "OperationDefinition"})
  /\ SharedName(rs.defs, {"OperationDefinition"})
  /\ rs.status = "thrown"


(***************************************************************************)
(* Properties of the files of a run.                                       *)
(***************************************************************************)
\* The files the run wrote or found unchanged: the outputs of the run.
OutputFiles == {FileAt(run.planned[i].path) : i \in DOMAIN run.planned}

\* Every output of the run is on the disk under its own name with the
\* content the run generated.
OutputsInPlace ==
  \A i \in DOMAIN run.planned :
    /\ Has(disk, FileAt(run.planned[i].path))
    /\ disk[FileAt(run.planned[i].path)] = run.planned[i].text

\* The *.ts files that were there before the run and are no output of it.
NotWritten == Glob(run.before) \ OutputFiles

\* A file was renamed to <path>.unused.
RenamedUnused(p) ==
  /\ ~Has(disk, p)
  /\ Has(disk, p \o <<".unused">>)
  /\ disk[p \o <<".unused">>] = run.before[p]

FetchFails(api) ==
  \/ api.kind = "error"
  \/ api.kind = "response"
     /\ \/ api.body = <<>>
        \/ ~Has(api.body[1], "response")
        \/ \E i \in DOMAIN api.body[1].response :
             IsThrown(parseContentModelSchema(api.body[1].response[i].json))

\* The entry of the emitted module for a schema.
EntryOf(schema) ==
  Stringify(schema.name) \o ": " \o generateTypeFor(schema.json) \o ","

\* C16: whenever fetching the built-in content models fails, the command
\* with valid user-supplied schemas does not end in an error, and the
\* module it emits holds the entries of the user-supplied schemas.
C16_FetchFailureTolerated ==
  (FetchFails(run.api) /\ InputSchemas(run.input).status = "ok") =>
    /\ pc # "failed"
    /\ pc = "done" =>
         \A i \in DOMAIN InputSchemas(run.input).schemas :
           EntryOf(InputSchemas(run.input).schemas[i]) \in Range(out.text)


\* The validator the mapping of the emitter gives a schema or a field
\* that is no object.
EnumPresent(v) == Has(v, "validation") /\ Has(v.validation, "enum")

EnumValidator(values) ==
  "ss.enums(["
  \o JoinStrings([i \in DOMAIN values |-> Stringify(values[i]) \o " as const"], ",")
  \o "])"

LeafValidator(v) ==
  IF v.type = "string" /\ EnumPresent(v)
    THEN EnumValidator([i \in DOMAIN v.validation.enum |-> v.validation.enum[i].value])
  ELSE IF v.type \in {"string", "datetime"} THEN "ss.string()"
  ELSE IF v.type = "number" THEN "ss.number()"
  ELSE "ss.boolean()"

RecordValidator(fields) ==
  "ss.type({"
  \o JoinStrings([i \in DOMAIN fields |->
                    Stringify(fields[i].name) \o ": " \o LeafValidator(fields[i])], ",")
  \o "})"

MappedValidator(v) ==
  IF v.type = "object" THEN RecordValidator(v.fields) ELSE LeafValidator(v)

\* C17: the emitted module has one entry per input schema, in their order,
\* keyed by the name of the schema, and the validator of the entry is: for
\* a string with validation.enum the enum validator over the values in
\* their listed order, for any other string and for a datetime the string
\* validator, for a number the number validator, for a boolean the boolean
\* validator, for an object the record validator with one entry per field
\* keyed by the name of the field, each field mapped in the same way.
C17_EmitterMapping ==
  pc = "done" =>
    /\ Len(out.text) = Len(run.schemas) + 3
    /\ \A i \in DOMAIN run.schemas :
         out.text[i + 2] = Stringify(run.schemas[i].name) \o ": "
                           \o MappedValidator(run.schemas[i].json) \o ","

\* A module is emitted for built-in and user-supplied schemas with an enum
\* (the scenario of the Color schema), a datetime, and an object whose
\* fields are of every type, with and without an enum.
C17_Witness ==
  /\ pc = "done"
  /\ "\"Color\": ss.enums([\"red\" as const,\"blue\" as const])," \in Range(out.text)
  /\ \E i \in DOMAIN run.schemas : run.schemas[i] = CardSchema
  /\ \E i \in DOMAIN run.schemas : run.schemas[i].json.type = "datetime"
  /\ Len(run.schemas) > Len(run.input)


(***************************************************************************)
(* Properties of validation in a run.                                      *)
(***************************************************************************)
HasAnonymous(defs) ==
  \E i \in DOMAIN defs : defs[i].kind = "OperationDefinition" /\ defs[i].name = ""

\* C18: a run whose document holds an operation definition without a name
\* never gets past validation: resolveTypes and generate are not called
\* and no file of the target directory is written, renamed or deleted; once
\* its imports are loaded the run ends in validateDocument, which reports
\* "Script does not support anonymous operations".
C18_AnonymousRejected ==
  HasAnonymous(doc) =>
    /\ pc \in {"start", "read", "imports", "failed"}
    /\ rs = NoResolver
    /\ out = NoOutput
    /\ disk = run.before
    /\ (pc = "failed" /\ imports.status = "ok" /\ ~AdditionalThrows(imports)) =>
         /\ err = "validation"
         /\ "Script does not support anonymous operations"
              \in NoAnonymousQueries(ValidatedDocument(doc, imports))

\* A run on files among which one holds an anonymous operation, in a
\* directory that holds files, has ended in validation.
C18_Witness ==
  /\ pc = "failed"
  /\ err = "validation"
  /\ HasAnonymous(doc)
  /\ Len(doc) > 1
  /\ disk # <<>>


(***************************************************************************)
(* Properties of the text of an operation file.                            *)
(***************************************************************************)
\* The import line of a dependency: its name, and its origin path with the
\* @NAME of an include replaced by the prefix.
LineOf(o) == ImportLine(o.name, mapPrefix(Includes, o.path))

Sorted(seq, before(_, _)) ==
  \A i, j \in DOMAIN seq : i < j => before(seq[i], seq[j])

NameBefore(a, b) == IndexOf(NameOrder, a) < IndexOf(NameOrder, b)

\* C19: an operation file holds one import line per distinct dependency
\* (origin path, name) of the operation, the origin path being ".." for a
\* local fragment and the declared path of the import with @NAME replaced
\* by its prefix otherwise, the lines sorted and followed by the import of
\* the Meta type of the operation; the default export concatenates every
\* dependency name once, sorted.
C19_OperationFileLines ==
  (pc = "generated") =>
    \A i \in DOMAIN out.operationFiles :
      LET file == out.operationFiles[i]
          closure == ClosureOfOperation(rs.operations[file.name].node)
      IN  /\ Range(file.depImports) = {LineOf(o) : o \in closure}
          /\ Len(file.depImports) = Cardinality(closure)
          /\ Sorted(file.depImports, LineBefore)
          /\ file.meta = file.name \o "Meta"
          /\ Range(file.depNames) = {o.name : o \in closure}
          /\ Len(file.depNames) = Cardinality({o.name : o \in closure})
          /\ Sorted(file.depNames, NameBefore)


(***************************************************************************)
(* Properties of the contexts of the imports.                              *)
(***************************************************************************)
\* The directory loadImports loads, what resolveTypesSorted returns for
\* its files, and the context loadImports keeps of it.
LoadedDir == UniqueDirs(specs)[1]
ResolvedDir ==
  ContextOf(resolveTypes(ConcatFiles(FS[ApplyIncludes(LoadedDir, Includes)]),
                         NoImports))
KeptContext == LoadDirs(UniqueDirs(specs), FS, specs, embedImports).rawImportData[1]

DirIsLoaded ==
  /\ specs # <<>>
  /\ LoadDirs(UniqueDirs(specs), FS, specs, embedImports).status = "ok"

\* Every import line of the directory lists names.
OnlyLists(d) == \A i \in DOMAIN specs : specs[i].from = d => specs[i].what.kind = "some"

ListedNames(d) ==
  UNION {Range(specs[i].what.names) : i \in {j \in DOMAIN specs : specs[j].from = d}}

\* The fragments of a context reachable from a set of them through
\* fragment-deps.
RECURSIVE DepsReach(_, _)
DepsReach(ctx, S) ==
  LET more == {n \in UNION {Range(ctx.fragmentDeps[k]) :
                              k \in S \cap DOMAIN ctx.fragmentDeps} :
                 Has(ctx.fragments, n)}
  IN  IF more \subseteq S THEN S ELSE DepsReach(ctx, S \cup more)

\* The enums the selection set of a fragment selects.
EnumsSelectedBy(f) ==
  EnumNames(walkType(TypeRef(f.node.typeCondition), f.node.selectionSet).seen)

\* C20: in embed mode, for an import path whose import lines all list
\* names, the fragments of the kept context are exactly the listed names
\* the path defines and the fragments reachable from them through
\* fragment-deps, its usedNamedTypes are exactly the enums the kept
\* fragments select, and its operations are empty; with an `import *` for
\* the path, or without embed mode, the fragments are those resolved.
C20_EmbedPruning ==
  (pc \in {"imports", "failed"} /\ rs = NoResolver /\ DirIsLoaded) =>
    IF embedImports /\ OnlyLists(LoadedDir)
      THEN /\ DOMAIN KeptContext.fragments =
                DepsReach(ResolvedDir,
                          ListedNames(LoadedDir) \cap DOMAIN ResolvedDir.fragments)
           /\ \A n \in DOMAIN KeptContext.fragments :
                KeptContext.fragments[n] = ResolvedDir.fragments[n]
           /\ KeptContext.usedNamedTypes =
                UNION {EnumsSelectedBy(KeptContext.fragments[n]) :
                         n \in DOMAIN KeptContext.fragments}
           /\ KeptContext.operations = <<>>
      ELSE KeptContext.fragments = ResolvedDir.fragments

\* Embed mode with `import { K } from "C:/y"`: K and its dependency F are
\* kept, the enum of the operation of the directory and the operation are
\* dropped.
C20_Witness ==
  /\ pc = "imports"
  /\ embedImports
  /\ DirIsLoaded
  /\ OnlyLists(LoadedDir)
  /\ ListedNames(LoadedDir) # DOMAIN KeptContext.fragments
  /\ KeptContext.usedNamedTypes # {}
  /\ KeptContext.usedNamedTypes # ResolvedDir.usedNamedTypes
  /\ ResolvedDir.operations # <<>>
  /\ imports.rawImportData[1] = KeptContext


(***************************************************************************)
(* Properties of the spreads of a selection loop.                          *)
(***************************************************************************)
\* The fragment a spread of `name` finds when a definition is attempted in
\* the state r of resolveTypes: the local map first, then the import map.
FoundLocally(r, name) == Has(r.fragments, name)
FoundImported(r, name) == ~Has(r.fragments, name) /\ Has(r.importedFragments, name)

\* The names whose spread cannot be taken: fragments in neither map, and
\* fragments whose type is neither an object nor an intersection.
Unspreadable(r, names) ==
  {n \in names :
     IF FoundLocally(r, n)
       THEN r.fragments[n].type.type \notin {"object", "intersection"}
     ELSE IF FoundImported(r, n)
       THEN r.importedFragments[n].fragment.type.type
              \notin {"object", "intersection"}
     ELSE TRUE}

\* A spread of one of `bad` stands next to other selections in some
\* selection set, whatever the type of its position.
RECURSIVE BadAmongSeveralAnywhere(_, _)
BadAmongSeveralAnywhere(ss, bad) ==
  \/ /\ Len(ss) >= 2
     /\ \E i \in DOMAIN ss : ss[i].kind = "FragmentSpread" /\ ss[i].name \in bad
  \/ \E i \in FieldSelections(ss) : BadAmongSeveralAnywhere(ss[i].selectionSet, bad)

\* The loop of resolveTypes attempts the definition at i in this step.
Attempting(i) ==
  rs.status = "pass" /\ Pending(rs) # {} /\ i = Min(Pending(rs))

\* The attempt of the definition at i fails: its error is recorded and
\* the definition stays unresolved.
AttemptFails(i) ==
  /\ rs'.status = "pass"
  /\ ~rs'.resolved[i]
  /\ \E e \in Range(rs'.errors) : e.loc = i

FilesUnder(sp) ==
  IF ApplyIncludes(sp.from, Includes) \in DOMAIN FS
    THEN FS[ApplyIncludes(sp.from, Includes)] ELSE <<>>

\* The fragments the files under a path define.
DefinedUnder(sp) ==
  {d.name : d \in {x \in UNION {Range(f.defs) : f \in Range(FilesUnder(sp))} :
                     x.kind = "FragmentDefinition"}}

NoFileUnder(sp) == FilesUnder(sp) = <<>>
NestedImportUnder(sp) == \E f \in Range(FilesUnder(sp)) : f.hasImports
ListsUndefined(sp) ==
  sp.what.kind = "some" /\ ~(Range(sp.what.names) \subseteq DefinedUnder(sp))

\* C22: loadImports ends with an error, and returns no imports, when a
\* file under a resolved import path holds an import directive, when a
\* resolved import path holds no .graphql file, and when a name listed in
\* `import { ... }` is no fragment defined under the path; the run ends
\* there.
C22_BadImportAborts ==
  (pc # "read" /\ \E i \in DOMAIN specs :
                    \/ NoFileUnder(specs[i])
                    \/ NestedImportUnder(specs[i])
                    \/ ListsUndefined(specs[i]))
    => /\ imports.status = "thrown"
       /\ ~Has(imports, "loadedImportsMap")
       /\ pc = "failed"
       /\ rs = NoResolver
       /\ out = NoOutput

\* loadImports has thrown for a directory whose file holds an import
\* directive.
C22_Witness ==
  /\ pc = "failed"
  /\ imports.status = "thrown"
  /\ imports.reason = "nested imports"
  /\ NestedImportUnder(specs[1])
  /\ ~NoFileUnder(specs[1])


(***************************************************************************)
(* Properties of the import lexer.                                         *)
(***************************************************************************)
\* The directives of a text as they stand in it, from left to right.
RECURSIVE DirectivesInOrder(_, _)
DirectivesInOrder(text, i) ==
  IF i > Len(text) THEN <<>>
  ELSE IF MatchAllAt(text, i).found
    THEN <<MatchAllAt(text, i).spec>> \o DirectivesInOrder(text, MatchAllAt(text, i).next)
  ELSE IF MatchSomeAt(text, i).found
    THEN <<MatchSomeAt(text, i).spec>> \o DirectivesInOrder(text, MatchSomeAt(text, i).next)
  ELSE DirectivesInOrder(text, i + 1)

IsAllSpec(spec) == spec.what.kind = "all"
IsSomeSpec(spec) == spec.what.kind = "some"

Lexed == pc = "read" /\ Has(run, "text")

\* C23 as stated: the specs of a text are its directives in the order in
\* which they stand in the text.
C23_SpecsInSourceOrder ==
  Lexed => specs = DirectivesInOrder(run.text, 1)

\* C23: the specs of a text are one per directive and no other: first the
\* `import *` directives in the order of the text, then the `import { }`
\* directives in the order of the text, each with its names as written.
C23_SpecsGroupedByKind ==
  Lexed =>
    /\ Len(specs) = Len(DirectivesInOrder(run.text, 1))
    /\ specs = SelectSeq(DirectivesInOrder(run.text, 1), IsAllSpec)
                 \o SelectSeq(DirectivesInOrder(run.text, 1), IsSomeSpec)

\* import { K, F } from "C:/y", then a piece that is no directive, then
\* import * from "other": two specs, the later directive first.
C23_Witness ==
  /\ Lexed
  /\ Len(DirectivesInOrder(run.text, 1)) = 2
  /\ DirectivesInOrder(run.text, 1)[1] = ImportSome(ColonPath, <<"K", "F">>)
  /\ specs = <<ImportAll(OtherPath), ImportSome(ColonPath, <<"K", "F">>)>>
  /\ Cardinality({i \in DOMAIN run.text : run.text[i].kind = "import"}) = 3


(***************************************************************************)
(* Termination of the loop of passes.                                      *)
(***************************************************************************)
\* A step of one call of resolveTypes.
SameCall == pc' = pc /\ rs.status = "pass"

\* The step that ends a pass without ending the call with an error.
PassEndsWell ==
  SameCall /\ rs'.passes = rs.passes + 1 /\ rs'.status \in {"pass", "returned"}

\* C24: a pass that does not end the call with an error leaves fewer
\* definitions unresolved than it began with; a definition marked resolved
\* stays resolved and is not attempted again; a call on N definitions is
\* in its k-th pass only for k <= N and has ended after at most N passes.
C24_FixpointTerminates ==
  /\ [](/\ rs.passes <= Len(rs.defs)
        /\ rs.status = "pass" => rs.passes < Len(rs.defs))
  /\ [][PassEndsWell => Cardinality(Unresolved(rs')) < rs.before]_vars
  /\ [][SameCall =>
          \A i \in DOMAIN rs.defs :
            rs.resolved[i] => /\ rs'.resolved[i]
                              /\ rs'.resolvedIn[i] = rs.resolvedIn[i]]_vars

\* A call on three definitions has returned after three passes, one
\* definition resolved in each.
C24_Witness ==
  /\ rs.status = "returned"
  /\ Len(rs.defs) = 3
  /\ rs.passes = 3
  /\ {rs.resolvedIn[i] : i \in DOMAIN rs.defs} = {1, 2, 3}


(***************************************************************************)
(* Termination of the pass over the used named types.                      *)
(***************************************************************************)
\* C25: the pass over the used named types comes to its end for every
\* schema: no walk goes on until the stack of calls is used up.
C25_ClosurePassTerminates ==
  ~(pc = "failed" /\ err = StackOverflow)


(***************************************************************************)
(* The bindings of the fragment names in an operation file.                *)
(***************************************************************************)
\* A fragment of the local files has the name of a fragment that an import
\* brings along from its directory.
LocalNameImported ==
  /\ imports.status = "ok"
  /\ \E d \in Range(doc) :
       /\ d.kind = "FragmentDefinition"
       /\ \E imp \in Range(imports.loadedImports) :
            d.name \in DOMAIN imp.context.fragmentDeps
            /\ (d.name = imp.name \/ d.name \in Range(imp.context.fragmentDeps[imp.name]))

\* C27: in every operation file each fragment name is bound by one import
\* line: no two lines of a file import the same name. A document with a
\* local fragment that has the name of a fragment an import brings along
\* gets no operation file: the run ends at the validation.
C27_OneImportPerName ==
  /\ (pc \in {"generated", "written", "done"}) =>
       \A i \in DOMAIN out.operationFiles :
         \A a, b \in Range(out.operationFiles[i].depImports) :
           a.name = b.name => a = b
  /\ (LocalNameImported /\ pc # "imports") => (pc = "failed" /\ out = NoOutput)

\* An operation file that imports a local fragment, an imported fragment
\* it spreads and the fragment that one depends on in its directory.
C27_Witness ==
  /\ pc = "generated"
  /\ \E i \in DOMAIN out.operationFiles :
       LET lines == Range(out.operationFiles[i].depImports) IN
       /\ ImportLine("B", LocalPath) \in lines
       /\ \E a, b \in lines :
            a.name = "G" /\ b.name = "F" /\ a.from = b.from /\ a.from # LocalPath


(***************************************************************************)
(* The type names of the types module.                                     *)
(***************************************************************************)
\* The names an emitted type refers to.
RECURSIVE NamesIn(_)
NamesIn(t) ==
  CASE t.type = "named" -> {t.name}
    [] t.type = "array" -> NamesIn(t.element)
    [] t.type = "object" -> UNION {NamesIn(t.fields[f]) : f \in DOMAIN t.fields}
    [] t.type = "intersection" -> UNION {NamesIn(t.types[i]) : i \in DOMAIN t.types}

\* The names the declarations of a types module refer to.
ReferencedNames(o) ==
  UNION ({NamesIn(d.type) : d \in Range(o.named)}
         \cup {NamesIn(f.type) : f \in Range(o.fragments)}
         \cup {NamesIn(p.operation) : p \in Range(o.operations)}
         \cup {NamesIn(p.variables) : p \in Range(o.operations)})

\* The names a types module can refer to: the primitives of the host
\* language, ArbitraryObjectType, and what it declares or imports.
ResolvableNames(o) ==
  {"string", "number", "boolean", "ArbitraryObjectType"}
  \cup {d.name : d \in Range(o.named)}
  \cup {f.name : f \in Range(o.fragments)}
  \cup {i.name : i \in Range(o.typeImports)}

\* C28: every type name a declaration of the emitted types module refers
\* to is a primitive of the host language, ArbitraryObjectType, an enum or
\* input object the module declares, or a <Name>Fragment the module
\* declares or imports.
C28_TypeNamesResolvable ==
  (pc = "generated") => ReferencedNames(out) \subseteq ResolvableNames(out)


(***************************************************************************)
(* The target directory during a run.                                      *)
(***************************************************************************)
\* C29: until the files are loaded, the imports resolved, the document
\* validated and every output generated, the run writes no file, makes no
\* directory and renames or deletes nothing: the disk changes only in the
\* steps after the generation; a run that ended with an error in one of
\* these phases has left the directory as it was before the run.
C29_NothingWrittenBeforeGenerated ==
  /\ [](pc \in {"read", "imports", "valid", "generated", "failed"}
          => /\ disk = run.before
             /\ run.planned = <<>>
             /\ run.handled = "none")
  /\ [][disk' # disk => (pc \in {"generated", "written"} /\ out.status = "ok")]_vars

\* A run with import lines on a directory that holds files has ended with
\* an error after the imports were loaded: the directory holds what it
\* held, and neither output directory was made.
C29_Witness ==
  /\ pc = "failed"
  /\ err # ""
  /\ imports.status = "ok"
  /\ Len(specs) > 0
  /\ disk # <<>>
  /\ disk = run.before
  /\ \A dir \in OutputDirs(run.directory) : ~Has(disk, dir)


(***************************************************************************)
(* Termination of addFragmentDepsRecursive.                                *)
(***************************************************************************)
\* What the calls on the stack have still to do.
RECURSIVE DepsWork(_)
DepsWork(stack) ==
  IF stack = <<>> THEN 0 ELSE 1 + Len(Head(stack).frags) + DepsWork(Tail(stack))

\* The keys there are: a path of the call or of an import, and a name.
DepsKeySpace ==
  Cardinality({LocalPath} \cup {run.imports[n].path : n \in DOMAIN run.imports})
    * Cardinality(DepNames)

\* The dependencies of the fragments go in a circle.
CyclicDeps(m) ==
  \E a, b \in DOMAIN m : a \in Range(m[b]) /\ b \in Range(m[a])

\* C30: addFragmentDepsRecursive comes to its end for every fragmentDeps
\* map and import map, those with circles among them: no key is set and
\* expanded twice, there are never more expansions than keys, every step
\* either sets a new key or leaves less to do, and the call returns the
\* keys reached from the first name.
C30_DepsTerminates ==
  /\ [](/\ \A i, j \in DOMAIN run.expanded :
             run.expanded[i] = run.expanded[j] => i = j
        /\ Len(run.expanded) <= DepsKeySpace
        /\ Range(run.expanded) = run.deps
        /\ pc = "returned" =>
             run.deps = addFragmentDepsRecursive({}, <<run.start>>, run.fragsMap,
                                                 run.imports, LocalPath))
  /\ [][\/ Len(run'.expanded) = Len(run.expanded) + 1
        \/ /\ run'.expanded = run.expanded
           /\ DepsWork(run'.stack) < DepsWork(run.stack)]_vars

\* The call has returned for a local fragment that depends on itself
\* through another and spreads an import whose context has a circle.
C30_Witness ==
  /\ pc = "returned"
  /\ CyclicDeps(run.fragsMap)
  /\ \E n \in DOMAIN run.imports :
       /\ CyclicDeps(run.imports[n].context.fragmentDeps)
       /\ DepKey(run.imports[n].path, n) \in run.deps
  /\ Cardinality(run.deps) >= 4

====
